---- MODULE Spec2Model ----
(***************************************************************************)
(* A model of the mental-health chatbot: the text-risk pipeline            *)
(* (stress_detector.py, sentiment_analyzer.py, app.py assess_urgency), the *)
(* per-session user profile (app.py update_user_profile), the response     *)
(* policy (emergency_handler.py) and the chat loop of app.py main().       *)
(*                                                                         *)
(* Text is a sequence of one-character strings, so that str.lower(), the   *)
(* substring operator "in", re.search with \b word boundaries, str.split() *)
(* and re.sub are modelled by what they do on characters.                  *)
(*                                                                         *)
(* Python floats are modelled by exact rationals [num, den].  The          *)
(* thresholds of the code are compared exactly; a float rounding error can *)
(* differ from the exact value only for inputs that land on a threshold.   *)
(***************************************************************************)
EXTENDS Integers, Sequences, FiniteSets, TLC

VARIABLES
  text,              \* the text under analysis
  assessment,        \* what assess_stress_level returned for it
  conversation_history, \* the earlier messages a caller of the detector keeps
  burnout,           \* the last analyze_burnout_risk call and its result
  pieces,            \* how many vocabulary pieces `text` was typed from
  urgency_call,      \* the last assess_urgency call and its result
  user_profile,      \* st.session_state.user_profile
  indicator_arrivals, \* every indicator ever appended to the profile, in order
  pc,                \* where main() is in the handling of a submitted message
  user_input,        \* the message st.chat_input returned
  messages,          \* st.session_state.messages
  main_analysis,     \* main()'s analysis: what analyze_message returned
  reply,             \* what generate_response returned and how it got it
  gpt_calls,         \* how often gpt_health_companion_response was invoked
  conversations,     \* the rows of the conversations table
  log,               \* the entries of chatbot.log
  polarity,          \* what VADER and TextBlob answer for a cleaned text
  uuid_drawn,        \* how many uuid4 values were drawn for session hashes
  turn_events,       \* what happened while handling user_input, in order
  sentiment_call,    \* the last call of SentimentAnalyzer.analyze and its result
  clock,             \* the wall clock that datetime.now() reads, in ticks
  data_retention_days,  \* DataHandler.data_retention_days
  anonymize_after_days, \* DataHandler.anonymize_after_days
  wellness_activities,  \* the rows of the wellness_activities table
  store_result,      \* the last DataHandler call and what it returned
  store_calls,       \* how many DataHandler calls were made
  reserved_lock,     \* the connection that holds the database's write lock
  store_conn,        \* the connection of a store_conversation_data call in progress
  sweep_conn,        \* the connection of a cleanup_old_data call in progress
  acknowledged,      \* the rows for which store_conversation_data returned True
  key_file,          \* the content of data_encryption.key, if the file exists
  handlers,          \* each DataHandler being constructed: its position and key
  keys_generated     \* how many keys Fernet.generate_key() has produced

-----------------------------------------------------------------------------
(* Characters and strings                                                  *)

\* str.lower() on the ASCII letters
UpperToLower ==
  [A |-> "a", B |-> "b", C |-> "c", D |-> "d", E |-> "e", F |-> "f", G |-> "g",
   H |-> "h", I |-> "i", J |-> "j", K |-> "k", L |-> "l", M |-> "m", N |-> "n",
   O |-> "o", P |-> "p", Q |-> "q", R |-> "r", S |-> "s", T |-> "t", U |-> "u",
   V |-> "v", W |-> "w", X |-> "x", Y |-> "y", Z |-> "z"]

lower_char(c) == IF c \in DOMAIN UpperToLower THEN UpperToLower[c] ELSE c

lower(s) == [i \in 1..Len(s) |-> lower_char(s[i])]

\* the characters the regular expression class \w matches
WordChars ==
  {"a","b","c","d","e","f","g","h","i","j","k","l","m","n","o","p","q","r","s",
   "t","u","v","w","x","y","z","0","1","2","3","4","5","6","7","8","9","_"}
  \cup DOMAIN UpperToLower

IsWordChar(c) == c \in WordChars

\* the characters the regular expression class \s matches
Whitespace == {" ", "\t", "\n"}

\* s[i .. i+Len(sub)-1] = sub
matches_at(s, i, sub) ==
  /\ i + Len(sub) - 1 <= Len(s)
  /\ \A k \in 1..Len(sub) : s[i + k - 1] = sub[k]

\* Python: sub in s
contains(s, sub) == \E i \in 1..(Len(s) - Len(sub) + 1) : matches_at(s, i, sub)

\* Python: any(k in s for k in list)
any_in(list, s) == \E k \in 1..Len(list) : contains(s, list[k])

\* Python: sum(1 for k in list if k in s)
count_in(list, s) == Cardinality({k \in 1..Len(list) : contains(s, list[k])})

\* the regular expression assertion \b in the gap after the first p characters
word_boundary(s, p) ==
  (p >= 1 /\ IsWordChar(s[p])) # (p < Len(s) /\ IsWordChar(s[p + 1]))

\* re.search(r'\b(a1|a2|...)\b', s), the pattern given as <<a1, a2, ...>>
re_search(pattern, s) ==
  \E i \in 1..Len(s) :
    /\ word_boundary(s, i - 1)
    /\ \E a \in 1..Len(pattern) :
         /\ matches_at(s, i, pattern[a])
         /\ word_boundary(s, i + Len(pattern[a]) - 1)

\* for category, patterns in table.items():
\*     for pattern in patterns: if re.search(...): append(category); break
matching_categories(table, s) ==
  LET hit(row) == \E p \in 1..Len(row.patterns) : re_search(row.patterns[p], s)
      rows == SelectSeq(table, hit)
  IN  [i \in 1..Len(rows) |-> rows[i].category]

-----------------------------------------------------------------------------
(* Pattern tables of stress_detector.py                                    *)

\* stress_detector.py:13-38  stress_patterns; each pattern r"\b(a|b|...)\b" is the list of its alternatives
stress_patterns ==
  <<
     [category |-> "work_stress",
      patterns |-> <<
         << <<"w","o","r","k">>,
            <<"j","o","b">>,
            <<"b","o","s","s">>,
            <<"d","e","a","d","l","i","n","e">>,
            <<"o","v","e","r","t","i","m","e">>,
            <<"m","e","e","t","i","n","g">>,
            <<"p","r","o","j","e","c","t">>,
            <<"w","o","r","k","l","o","a","d">> >>,
         << <<"t","o","o"," ","m","u","c","h"," ","w","o","r","k">>,
            <<"w","o","r","k"," ","p","r","e","s","s","u","r","e">>,
            <<"w","o","r","k"," ","s","t","r","e","s","s">>,
            <<"j","o","b"," ","s","t","r","e","s","s">> >> >>],
     [category |-> "academic_stress",
      patterns |-> <<
         << <<"e","x","a","m">>,
            <<"t","e","s","t">>,
            <<"h","o","m","e","w","o","r","k">>,
            <<"a","s","s","i","g","n","m","e","n","t">>,
            <<"g","r","a","d","e">>,
            <<"s","t","u","d","y">>,
            <<"s","t","u","d","y","i","n","g">>,
            <<"s","c","h","o","o","l">>,
            <<"u","n","i","v","e","r","s","i","t","y">>,
            <<"c","o","l","l","e","g","e">> >>,
         << <<"a","c","a","d","e","m","i","c"," ","p","r","e","s","s","u","r","e">>,
            <<"s","t","u","d","y"," ","s","t","r","e","s","s">>,
            <<"e","x","a","m"," ","a","n","x","i","e","t","y">> >> >>],
     [category |-> "financial_stress",
      patterns |-> <<
         << <<"m","o","n","e","y">>,
            <<"d","e","b","t">>,
            <<"b","i","l","l","s">>,
            <<"r","e","n","t">>,
            <<"m","o","r","t","g","a","g","e">>,
            <<"f","i","n","a","n","c","i","a","l">>,
            <<"b","u","d","g","e","t">>,
            <<"b","r","o","k","e">>,
            <<"p","o","o","r">> >>,
         << <<"f","i","n","a","n","c","i","a","l"," ","s","t","r","e","s","s">>,
            <<"m","o","n","e","y"," ","p","r","o","b","l","e","m","s">>,
            <<"c","a","n","\\","'","t"," ","a","f","f","o","r","d">> >> >>],
     [category |-> "relationship_stress",
      patterns |-> <<
         << <<"r","e","l","a","t","i","o","n","s","h","i","p">>,
            <<"m","a","r","r","i","a","g","e">>,
            <<"d","i","v","o","r","c","e">>,
            <<"b","r","e","a","k","u","p">>,
            <<"f","a","m","i","l","y">>,
            <<"f","r","i","e","n","d">>,
            <<"p","a","r","t","n","e","r">>,
            <<"s","p","o","u","s","e">> >>,
         << <<"r","e","l","a","t","i","o","n","s","h","i","p"," ","p","r","o","b","l","e","m","s">>,
            <<"f","a","m","i","l","y"," ","i","s","s","u","e","s">>,
            <<"c","o","n","f","l","i","c","t"," ","w","i","t","h">> >> >>],
     [category |-> "health_stress",
      patterns |-> <<
         << <<"s","i","c","k">>,
            <<"i","l","l","n","e","s","s">>,
            <<"d","i","s","e","a","s","e">>,
            <<"d","o","c","t","o","r">>,
            <<"h","o","s","p","i","t","a","l">>,
            <<"m","e","d","i","c","a","l">>,
            <<"h","e","a","l","t","h">>,
            <<"p","a","i","n">>,
            <<"s","u","r","g","e","r","y">> >>,
         << <<"h","e","a","l","t","h"," ","p","r","o","b","l","e","m","s">>,
            <<"m","e","d","i","c","a","l"," ","i","s","s","u","e","s">>,
            <<"c","h","r","o","n","i","c"," ","p","a","i","n">> >> >>],
     [category |-> "social_stress",
      patterns |-> <<
         << <<"s","o","c","i","a","l">>,
            <<"p","e","o","p","l","e">>,
            <<"f","r","i","e","n","d","s">>,
            <<"p","a","r","t","y">>,
            <<"s","o","c","i","a","l"," ","m","e","d","i","a">>,
            <<"n","e","t","w","o","r","k","i","n","g">>,
            <<"p","u","b","l","i","c"," ","s","p","e","a","k","i","n","g">> >>,
         << <<"s","o","c","i","a","l"," ","a","n","x","i","e","t","y">>,
            <<"a","f","r","a","i","d"," ","o","f"," ","p","e","o","p","l","e">>,
            <<"s","o","c","i","a","l"," ","p","r","e","s","s","u","r","e">> >> >>]
  >>

\* stress_detector.py:41-58  physical_symptoms; each pattern r"\b(a|b|...)\b" is the list of its alternatives
physical_symptoms ==
  <<
     [category |-> "sleep_issues",
      patterns |-> <<
         << <<"c","a","n","\\","'","t"," ","s","l","e","e","p">>,
            <<"i","n","s","o","m","n","i","a">>,
            <<"s","l","e","e","p","l","e","s","s">>,
            <<"t","i","r","e","d">>,
            <<"e","x","h","a","u","s","t","e","d">>,
            <<"f","a","t","i","g","u","e">>,
            <<"n","o"," ","e","n","e","r","g","y">> >>,
         << <<"s","l","e","e","p"," ","p","r","o","b","l","e","m","s">>,
            <<"s","l","e","e","p","i","n","g"," ","t","o","o"," ","m","u","c","h">>,
            <<"w","a","k","e"," ","u","p"," ","t","i","r","e","d">> >> >>],
     [category |-> "appetite_changes",
      patterns |-> <<
         << <<"n","o","t"," ","h","u","n","g","r","y">>,
            <<"n","o"," ","a","p","p","e","t","i","t","e">>,
            <<"e","a","t","i","n","g"," ","t","o","o"," ","m","u","c","h">>,
            <<"b","i","n","g","e"," ","e","a","t","i","n","g">>,
            <<"l","o","s","t"," ","w","e","i","g","h","t">>,
            <<"g","a","i","n","e","d"," ","w","e","i","g","h","t">> >>,
         << <<"a","p","p","e","t","i","t","e"," ","c","h","a","n","g","e","s">>,
            <<"s","t","r","e","s","s"," ","e","a","t","i","n","g">>,
            <<"c","o","m","f","o","r","t"," ","f","o","o","d">> >> >>],
     [category |-> "physical_tension",
      patterns |-> <<
         << <<"h","e","a","d","a","c","h","e">>,
            <<"m","u","s","c","l","e"," ","t","e","n","s","i","o","n">>,
            <<"b","a","c","k"," ","p","a","i","n">>,
            <<"n","e","c","k"," ","p","a","i","n">>,
            <<"s","t","o","m","a","c","h"," ","a","c","h","e">>,
            <<"n","a","u","s","e","a">> >>,
         << <<"t","i","g","h","t"," ","c","h","e","s","t">>,
            <<"h","e","a","r","t"," ","r","a","c","i","n","g">>,
            <<"p","a","l","p","i","t","a","t","i","o","n","s">>,
            <<"s","w","e","a","t","i","n","g">>,
            <<"t","r","e","m","b","l","i","n","g">> >> >>],
     [category |-> "cognitive_symptoms",
      patterns |-> <<
         << <<"c","a","n","\\","'","t"," ","c","o","n","c","e","n","t","r","a","t","e">>,
            <<"m","e","m","o","r","y"," ","p","r","o","b","l","e","m","s">>,
            <<"c","o","n","f","u","s","e","d">>,
            <<"f","o","r","g","e","t","f","u","l">>,
            <<"d","i","s","t","r","a","c","t","e","d">> >>,
         << <<"b","r","a","i","n"," ","f","o","g">>,
            <<"c","a","n","\\","'","t"," ","t","h","i","n","k">>,
            <<"o","v","e","r","w","h","e","l","m","e","d">>,
            <<"r","a","c","i","n","g"," ","t","h","o","u","g","h","t","s">> >> >>]
  >>

\* stress_detector.py:61-78  emotional_indicators; each pattern r"\b(a|b|...)\b" is the list of its alternatives
emotional_indicators ==
  <<
     [category |-> "anxiety_markers",
      patterns |-> <<
         << <<"a","n","x","i","o","u","s">>,
            <<"w","o","r","r","i","e","d">>,
            <<"n","e","r","v","o","u","s">>,
            <<"p","a","n","i","c">>,
            <<"f","e","a","r">>,
            <<"s","c","a","r","e","d">>,
            <<"t","e","r","r","i","f","i","e","d">>,
            <<"d","r","e","a","d">> >>,
         << <<"w","h","a","t"," ","i","f">>,
            <<"w","o","r","s","t"," ","c","a","s","e">>,
            <<"c","a","t","a","s","t","r","o","p","h","i","c"," ","t","h","i","n","k","i","n","g">>,
            <<"o","v","e","r","t","h","i","n","k","i","n","g">> >> >>],
     [category |-> "depression_markers",
      patterns |-> <<
         << <<"s","a","d">>,
            <<"d","e","p","r","e","s","s","e","d">>,
            <<"h","o","p","e","l","e","s","s">>,
            <<"e","m","p","t","y">>,
            <<"w","o","r","t","h","l","e","s","s">>,
            <<"n","u","m","b">>,
            <<"n","o","t","h","i","n","g"," ","m","a","t","t","e","r","s">> >>,
         << <<"d","o","n","\\","'","t"," ","c","a","r","e">>,
            <<"g","i","v","i","n","g"," ","u","p">>,
            <<"n","o"," ","p","o","i","n","t">>,
            <<"w","h","y"," ","b","o","t","h","e","r">> >> >>],
     [category |-> "anger_markers",
      patterns |-> <<
         << <<"a","n","g","r","y">>,
            <<"f","r","u","s","t","r","a","t","e","d">>,
            <<"i","r","r","i","t","a","t","e","d">>,
            <<"f","u","r","i","o","u","s">>,
            <<"r","a","g","e">>,
            <<"m","a","d">>,
            <<"a","n","n","o","y","e","d">> >>,
         << <<"c","a","n","\\","'","t"," ","s","t","a","n","d">>,
            <<"f","e","d"," ","u","p">>,
            <<"h","a","d"," ","e","n","o","u","g","h">>,
            <<"l","o","s","i","n","g"," ","p","a","t","i","e","n","c","e">> >> >>],
     [category |-> "overwhelm_markers",
      patterns |-> <<
         << <<"o","v","e","r","w","h","e","l","m","e","d">>,
            <<"t","o","o"," ","m","u","c","h">>,
            <<"c","a","n","\\","'","t"," ","h","a","n","d","l","e">>,
            <<"b","r","e","a","k","i","n","g"," ","p","o","i","n","t">>,
            <<"a","t"," ","m","y"," ","l","i","m","i","t">> >>,
         << <<"e","v","e","r","y","t","h","i","n","g"," ","i","s"," ","f","a","l","l","i","n","g"," ","a","p","a","r","t">>,
            <<"c","a","n","\\","'","t"," ","k","e","e","p"," ","u","p">>,
            <<"d","r","o","w","n","i","n","g">> >> >>]
  >>

\* stress_detector.py:81-98  behavioral_changes; each pattern r"\b(a|b|...)\b" is the list of its alternatives
behavioral_changes ==
  <<
     [category |-> "withdrawal",
      patterns |-> <<
         << <<"i","s","o","l","a","t","i","n","g">>,
            <<"a","v","o","i","d","i","n","g">>,
            <<"w","i","t","h","d","r","a","w","i","n","g">>,
            <<"s","t","a","y","i","n","g"," ","h","o","m","e">>,
            <<"d","o","n","\\","'","t"," ","w","a","n","t"," ","t","o"," ","s","e","e">> >>,
         << <<"h","i","d","i","n","g"," ","a","w","a","y">>,
            <<"k","e","e","p","i","n","g"," ","t","o"," ","m","y","s","e","l","f">>,
            <<"d","o","n","\\","'","t"," ","g","o"," ","o","u","t">> >> >>],
     [category |-> "procrastination",
      patterns |-> <<
         << <<"p","r","o","c","r","a","s","t","i","n","a","t","i","n","g">>,
            <<"p","u","t","t","i","n","g"," ","o","f","f">>,
            <<"a","v","o","i","d","i","n","g">>,
            <<"c","a","n","\\","'","t"," ","s","t","a","r","t">>,
            <<"d","e","l","a","y","i","n","g">> >>,
         << <<"k","e","e","p"," ","p","o","s","t","p","o","n","i","n","g">>,
            <<"m","a","k","i","n","g"," ","e","x","c","u","s","e","s">>,
            <<"r","u","n","n","i","n","g"," ","b","e","h","i","n","d">> >> >>],
     [category |-> "substance_use",
      patterns |-> <<
         << <<"d","r","i","n","k","i","n","g">>,
            <<"a","l","c","o","h","o","l">>,
            <<"s","m","o","k","i","n","g">>,
            <<"d","r","u","g","s">>,
            <<"m","e","d","i","c","a","t","i","o","n">>,
            <<"p","i","l","l","s">> >>,
         << <<"n","e","e","d"," ","a"," ","d","r","i","n","k">>,
            <<"s","e","l","f"," ","m","e","d","i","c","a","t","i","n","g">>,
            <<"u","s","i","n","g"," ","s","u","b","s","t","a","n","c","e","s">> >> >>],
     [category |-> "compulsive_behaviors",
      patterns |-> <<
         << <<"c","a","n","\\","'","t"," ","s","t","o","p">>,
            <<"a","d","d","i","c","t","e","d">>,
            <<"c","o","m","p","u","l","s","i","v","e">>,
            <<"o","b","s","e","s","s","i","v","e">>,
            <<"c","h","e","c","k","i","n","g"," ","c","o","n","s","t","a","n","t","l","y">> >>,
         << <<"s","c","r","o","l","l","i","n","g"," ","e","n","d","l","e","s","s","l","y">>,
            <<"b","i","n","g","e"," ","w","a","t","c","h","i","n","g">>,
            <<"s","h","o","p","p","i","n","g"," ","t","h","e","r","a","p","y">> >> >>]
  >>

\* stress_detector.py:101-114  crisis_indicators; each pattern r"\b(a|b|...)\b" is the list of its alternatives
sd_crisis_indicators ==
  <<
     [category |-> "suicidal_thoughts",
      patterns |-> <<
         << <<"s","u","i","c","i","d","e">>,
            <<"k","i","l","l"," ","m","y","s","e","l","f">>,
            <<"e","n","d"," ","i","t"," ","a","l","l">>,
            <<"w","a","n","t"," ","t","o"," ","d","i","e">>,
            <<"b","e","t","t","e","r"," ","o","f","f"," ","d","e","a","d">> >>,
         << <<"n","o"," ","r","e","a","s","o","n"," ","t","o"," ","l","i","v","e">>,
            <<"c","a","n","\\","'","t"," ","g","o"," ","o","n">>,
            <<"t","h","i","n","k","i","n","g"," ","a","b","o","u","t"," ","e","n","d","i","n","g">> >> >>],
     [category |-> "self_harm",
      patterns |-> <<
         << <<"h","u","r","t"," ","m","y","s","e","l","f">>,
            <<"h","a","r","m"," ","m","y","s","e","l","f">>,
            <<"c","u","t"," ","m","y","s","e","l","f">>,
            <<"s","e","l","f"," ","i","n","j","u","r","y">>,
            <<"s","e","l","f"," ","h","a","r","m">> >>,
         << <<"w","a","n","t"," ","t","o"," ","h","u","r","t"," ","m","y","s","e","l","f">>,
            <<"t","h","i","n","k","i","n","g"," ","a","b","o","u","t"," ","h","u","r","t","i","n","g">> >> >>],
     [category |-> "severe_hopelessness",
      patterns |-> <<
         << <<"n","o"," ","h","o","p","e">>,
            <<"h","o","p","e","l","e","s","s">>,
            <<"p","o","i","n","t","l","e","s","s">>,
            <<"n","o","t","h","i","n","g"," ","w","i","l","l"," ","c","h","a","n","g","e">>,
            <<"s","t","u","c","k"," ","f","o","r","e","v","e","r">> >>,
         << <<"n","o"," ","w","a","y"," ","o","u","t">>,
            <<"t","r","a","p","p","e","d">>,
            <<"n","o","t","h","i","n","g"," ","h","e","l","p","s">>,
            <<"g","i","v","e","n"," ","u","p"," ","c","o","m","p","l","e","t","e","l","y">> >> >>]
  >>

\* stress_detector.py:117-130  positive_coping; each pattern r"\b(a|b|...)\b" is the list of its alternatives
positive_coping ==
  <<
     [category |-> "seeking_help",
      patterns |-> <<
         << <<"t","h","e","r","a","p","y">>,
            <<"c","o","u","n","s","e","l","i","n","g">>,
            <<"t","h","e","r","a","p","i","s","t">>,
            <<"p","s","y","c","h","o","l","o","g","i","s","t">>,
            <<"s","u","p","p","o","r","t"," ","g","r","o","u","p">> >>,
         << <<"t","a","l","k","i","n","g"," ","t","o"," ","s","o","m","e","o","n","e">>,
            <<"g","e","t","t","i","n","g"," ","h","e","l","p">>,
            <<"r","e","a","c","h","e","d"," ","o","u","t">> >> >>],
     [category |-> "self_care",
      patterns |-> <<
         << <<"e","x","e","r","c","i","s","e">>,
            <<"m","e","d","i","t","a","t","i","o","n">>,
            <<"y","o","g","a">>,
            <<"r","e","l","a","x","a","t","i","o","n">>,
            <<"d","e","e","p"," ","b","r","e","a","t","h","i","n","g">>,
            <<"m","i","n","d","f","u","l","n","e","s","s">> >>,
         << <<"t","a","k","i","n","g"," ","c","a","r","e"," ","o","f"," ","m","y","s","e","l","f">>,
            <<"s","e","l","f"," ","c","a","r","e">>,
            <<"h","e","a","l","t","h","y"," ","h","a","b","i","t","s">> >> >>],
     [category |-> "problem_solving",
      patterns |-> <<
         << <<"m","a","k","i","n","g"," ","a"," ","p","l","a","n">>,
            <<"t","a","k","i","n","g"," ","s","t","e","p","s">>,
            <<"w","o","r","k","i","n","g"," ","o","n"," ","i","t">>,
            <<"f","i","n","d","i","n","g"," ","s","o","l","u","t","i","o","n","s">> >>,
         << <<"t","r","y","i","n","g"," ","t","o"," ","f","i","x">>,
            <<"a","d","d","r","e","s","s","i","n","g"," ","t","h","e"," ","i","s","s","u","e">>,
            <<"t","a","k","i","n","g"," ","a","c","t","i","o","n">> >> >>]
  >>

\* stress_detector.py:245-250  burnout_patterns; each pattern r"\b(a|b|...)\b" is the list of its alternatives
burnout_patterns ==
  <<
     [category |-> "exhaustion",
      patterns |-> <<
         << <<"e","x","h","a","u","s","t","e","d">>,
            <<"d","r","a","i","n","e","d">>,
            <<"b","u","r","n","e","d"," ","o","u","t">>,
            <<"n","o"," ","e","n","e","r","g","y">>,
            <<"d","e","p","l","e","t","e","d">>,
            <<"w","o","r","n"," ","o","u","t">> >> >>],
     [category |-> "cynicism",
      patterns |-> <<
         << <<"d","o","n","\\","'","t"," ","c","a","r","e">>,
            <<"w","h","a","t","\\","'","s"," ","t","h","e"," ","p","o","i","n","t">>,
            <<"n","o","t","h","i","n","g"," ","m","a","t","t","e","r","s">>,
            <<"w","h","y"," ","b","o","t","h","e","r">> >> >>],
     [category |-> "inefficacy",
      patterns |-> <<
         << <<"n","o","t"," ","g","o","o","d"," ","e","n","o","u","g","h">>,
            <<"f","a","i","l","i","n","g">>,
            <<"c","a","n","\\","'","t"," ","d","o"," ","a","n","y","t","h","i","n","g"," ","r","i","g","h","t">>,
            <<"u","s","e","l","e","s","s">> >> >>],
     [category |-> "detachment",
      patterns |-> <<
         << <<"d","i","s","c","o","n","n","e","c","t","e","d">>,
            <<"g","o","i","n","g"," ","t","h","r","o","u","g","h"," ","m","o","t","i","o","n","s">>,
            <<"a","u","t","o","p","i","l","o","t">>,
            <<"n","u","m","b">> >> >>]
  >>

-----------------------------------------------------------------------------
(* Inputs of analyze_burnout_risk and of the chat loop                     *)

MaxHistory == 11

HistoryMessages ==
  << \* "Deadline at work"
     <<"D","e","a","d","l","i","n","e"," ","a","t"," ","w","o","r","k">>,
     \* "ok"
     <<"o","k">> >>

\* the messages a user submits in the chat loop
ChatInputs ==
  << \* "I want to kill myself"
     <<"I"," ","w","a","n","t"," ","t","o"," ","k","i","l","l"," ","m","y","s","e","l","f">>,
     \* "I feel hopeless"
     <<"I"," ","f","e","e","l"," ","h","o","p","e","l","e","s","s">>,
     \* "Panic attack at work"
     <<"P","a","n","i","c"," ","a","t","t","a","c","k"," ","a","t"," ","w","o","r","k">>,
     \* "I am fine"
     <<"I"," ","a","m"," ","f","i","n","e">>,
     \* "I want to end my life"
     <<"I"," ","w","a","n","t"," ","t","o"," ","e","n","d"," ","m","y"," ","l","i","f","e">> >>

BurnoutTexts ==
  << \* "fine"
     <<"f","i","n","e">>,
     \* "exhausted"
     <<"e","x","h","a","u","s","t","e","d">>,
     \* "exhausted and numb"
     <<"e","x","h","a","u","s","t","e","d"," ","a","n","d"," ","n","u","m","b">>,
     \* "Exhausted, numb, useless"
     <<"E","x","h","a","u","s","t","e","d",","," ","n","u","m","b",","," ","u","s","e","l","e","s","s">>,
     \* "drained, useless, numb, why bother"
     <<"d","r","a","i","n","e","d",","," ","u","s","e","l","e","s","s",","," ","n","u","m","b",","," ","w","h","y"," ","b","o","t","h","e","r">> >>

-----------------------------------------------------------------------------
(* StressDetector (stress_detector.py)                                     *)

\* all_patterns = {**stress_patterns, **physical_symptoms,
\*                 **emotional_indicators, **behavioral_changes}
all_patterns ==
  stress_patterns \o physical_symptoms \o emotional_indicators \o behavioral_changes

search_stress_signals(t) ==
  IF t = <<>> THEN <<>> ELSE matching_categories(all_patterns, lower(t))

\* search_stress_signals on the messages of ChatInputs, evaluated once
StressSignalsMemo ==
  [t \in {ChatInputs[i] : i \in 1..Len(ChatInputs)} |-> search_stress_signals(t)]

detect_stress_signals(t) ==
  IF t \in DOMAIN StressSignalsMemo THEN StressSignalsMemo[t]
  ELSE search_stress_signals(t)

detect_crisis_indicators(t) == matching_categories(sd_crisis_indicators, lower(t))

detect_positive_coping(t) == matching_categories(positive_coping, lower(t))



\* total_score with the crisis term subtracted like the coping term
total_score_x2_crisis_subtracted(stress_signals, crisis_signals, coping_signals) ==
  2 * Len(stress_signals) - 6 * Len(crisis_signals) - Len(coping_signals)

\* total_score = len(stress) + len(crisis) * 3 + len(coping) * -0.5, in halves
total_score_x2(stress_signals, crisis_signals, coping_signals) ==
  2 * Len(stress_signals) + 6 * Len(crisis_signals)
    - Len(coping_signals)

\* the level by the numeric score alone, without "crisis_signals or"
stress_level_of_score_only(crisis_signals, score_x2) ==
  IF score_x2 >= 16 THEN "critical"
  ELSE IF score_x2 >= 10 THEN "high"
  ELSE IF score_x2 >= 6 THEN "moderate"
  ELSE IF score_x2 >= 2 THEN "mild"
  ELSE "low"

stress_level_of(crisis_signals, score_x2) ==
  IF crisis_signals # <<>> \/ score_x2 >= 16 THEN "critical"
  ELSE IF score_x2 >= 10 THEN "high"
  ELSE IF score_x2 >= 6 THEN "moderate"
  ELSE IF score_x2 >= 2 THEN "mild"
  ELSE "low"

assess_stress_level(t) ==
  LET stress_signals == detect_stress_signals(t)
      crisis_signals == detect_crisis_indicators(t)
      coping_signals == detect_positive_coping(t)
      score_x2 == total_score_x2(stress_signals, crisis_signals, coping_signals)
  IN  [stress_level    |-> stress_level_of(crisis_signals, score_x2),
       stress_score_x2 |-> score_x2,
       stress_signals  |-> stress_signals,
       crisis_signals  |-> crisis_signals,
       coping_signals  |-> coping_signals,
       signal_count    |-> Len(stress_signals)]

\* any(re.search(pattern, msg.lower()) for patterns in stress_patterns.values()
\*                                     for pattern in patterns)
search_stress_patterns(msg) ==
  matching_categories(stress_patterns, lower(msg)) # <<>>

\* search_stress_patterns on the messages of HistoryMessages, evaluated once
StressMentionMemo ==
  [m \in {HistoryMessages[i] : i \in 1..Len(HistoryMessages)} |->
     search_stress_patterns(m)]

mentions_stress(msg) ==
  IF msg \in DOMAIN StressMentionMemo THEN StressMentionMemo[msg]
  ELSE search_stress_patterns(msg)

\* the whole history instead of its last ten messages
last_ten_whole_history(h) == h

\* conversation_history[-10:]
last_ten(h) == SubSeq(h, IF Len(h) > 10 THEN Len(h) - 9 ELSE 1, Len(h))

chronic_stress_of(given, h) ==
  IF given /\ h # <<>>
  THEN LET recent == last_ten(h)
           stress_mentions ==
             Cardinality({i \in 1..Len(recent) : mentions_stress(recent[i])})
       IN  stress_mentions >= 5
  ELSE FALSE

burnout_risk_level(n_indicators, chronic_stress) ==
  IF n_indicators >= 3 \/ chronic_stress THEN "high"
  ELSE IF n_indicators >= 2 THEN "moderate"
  ELSE IF n_indicators >= 1 THEN "mild"
  ELSE "low"

\* for indicator, pattern in burnout_patterns.items():
\*     if re.search(pattern, text_lower, re.IGNORECASE): append(indicator)
search_burnout_patterns(t) == matching_categories(burnout_patterns, lower(t))

\* search_burnout_patterns on the texts of BurnoutTexts, evaluated once
BurnoutIndicatorMemo ==
  [t \in {BurnoutTexts[i] : i \in 1..Len(BurnoutTexts)} |->
     search_burnout_patterns(t)]

burnout_indicators_of(t) ==
  IF t \in DOMAIN BurnoutIndicatorMemo THEN BurnoutIndicatorMemo[t]
  ELSE search_burnout_patterns(t)

\* `given` is FALSE when conversation_history is None
analyze_burnout_risk(t, given, h) ==
  LET burnout_indicators == burnout_indicators_of(t)
      chronic_stress == chronic_stress_of(given, h)
  IN  [burnout_risk |-> burnout_risk_level(Len(burnout_indicators), chronic_stress),
       burnout_indicators |-> burnout_indicators,
       chronic_stress_detected |-> chronic_stress]

-----------------------------------------------------------------------------
(* Numbers: Python floats as exact rationals                               *)

RECURSIVE gcd(_, _)
gcd(a, b) == IF b = 0 THEN a ELSE gcd(b, a % b)

abs(x) == IF x < 0 THEN -x ELSE x

\* the rational n/d (d > 0) in lowest terms
rat(n, d) == LET g == gcd(abs(n), d) IN [num |-> n \div g, den |-> d \div g]

r_less(a, b) == a.num * b.den < b.num * a.den

r_leq(a, b) == a.num * b.den <= b.num * a.den

r_add(a, b) ==
  LET g == gcd(a.den, b.den)
  IN  rat(a.num * (b.den \div g) + b.num * (a.den \div g), a.den * (b.den \div g))

r_sub(a, b) == r_add(a, [num |-> -b.num, den |-> b.den])

r_mul(a, b) == rat(a.num * b.num, a.den * b.den)

r_int(n) == [num |-> n, den |-> 1]

\* max(lo, min(hi, x))
r_clamp(lo, hi, x) == IF r_less(x, lo) THEN lo ELSE IF r_less(hi, x) THEN hi ELSE x

\* dict.get(key, default)
get(d, key, default) == IF key \in DOMAIN d THEN d[key] ELSE default

-----------------------------------------------------------------------------
(* MentalHealthChatbot.assess_urgency (app.py)                             *)

\* app.py:128-131  emergency_keywords (tested with the substring operator "in")
emergency_keywords ==
  << <<"s","u","i","c","i","d","e">>,
     <<"k","i","l","l"," ","m","y","s","e","l","f">>,
     <<"e","n","d"," ","i","t"," ","a","l","l">>,
     <<"n","o"," ","p","o","i","n","t">>,
     <<"h","o","p","e","l","e","s","s">>,
     <<"h","a","r","m"," ","m","y","s","e","l","f">>,
     <<"w","a","n","t"," ","t","o"," ","d","i","e">>,
     <<"c","a","n","'","t"," ","g","o"," ","o","n">>,
     <<"g","i","v","i","n","g"," ","u","p">> >>

\* app.py:133-136  high_stress_indicators (tested with the substring operator "in")
high_stress_indicators ==
  << <<"p","a","n","i","c"," ","a","t","t","a","c","k">>,
     <<"c","a","n","'","t"," ","b","r","e","a","t","h","e">>,
     <<"h","e","a","r","t"," ","r","a","c","i","n","g">>,
     <<"o","v","e","r","w","h","e","l","m","i","n","g">>,
     <<"b","r","e","a","k","i","n","g"," ","d","o","w","n">>,
     <<"f","a","l","l","i","n","g"," ","a","p","a","r","t">>,
     <<"c","a","n","'","t"," ","c","o","p","e">> >>

\* assess_urgency with the keyword lists tested on the message as typed
assess_urgency_not_lowered(message, sentiment, stress_indicators) ==
  LET compound == get(sentiment, "compound", r_int(0))
  IN  IF any_in(emergency_keywords, message) THEN "emergency"
      ELSE IF any_in(high_stress_indicators, message) THEN "high"
      ELSE IF r_less(compound, rat(-7, 10)) \/ Len(stress_indicators) >= 3
      THEN "high"
      ELSE IF r_less(compound, rat(-3, 10)) \/ Len(stress_indicators) >= 1
      THEN "medium"
      ELSE "low"

\* assess_urgency with the two sentiment thresholds tested in the other order
assess_urgency_medium_first(message, sentiment, stress_indicators) ==
  LET message_lower == lower(message)
      compound == get(sentiment, "compound", r_int(0))
  IN  IF any_in(emergency_keywords, message_lower) THEN "emergency"
      ELSE IF any_in(high_stress_indicators, message_lower) THEN "high"
      ELSE IF r_less(compound, rat(-3, 10)) \/ Len(stress_indicators) >= 1
      THEN "medium"
      ELSE IF r_less(compound, rat(-7, 10)) \/ Len(stress_indicators) >= 3
      THEN "high"
      ELSE "low"

assess_urgency(message, sentiment, stress_indicators) ==
  LET message_lower == lower(message)
      compound == get(sentiment, "compound", r_int(0))
  IN  IF any_in(emergency_keywords, message_lower) THEN "emergency"
      ELSE IF any_in(high_stress_indicators, message_lower) THEN "high"
      ELSE IF r_less(compound, rat(-7, 10)) \/ Len(stress_indicators) >= 3
      THEN "high"
      ELSE IF r_less(compound, rat(-3, 10)) \/ Len(stress_indicators) >= 1
      THEN "medium"
      ELSE "low"

-----------------------------------------------------------------------------
(* EmergencyHandler (emergency_handler.py)                                 *)

\* emergency_handler.py:47-66  crisis_indicators['immediate_danger']
eh_immediate_danger ==
  << <<"k","i","l","l"," ","m","y","s","e","l","f">>,
     <<"e","n","d"," ","m","y"," ","l","i","f","e">>,
     <<"s","u","i","c","i","d","e">>,
     <<"w","a","n","t"," ","t","o"," ","d","i","e">>,
     <<"b","e","t","t","e","r"," ","o","f","f"," ","d","e","a","d">>,
     <<"n","o"," ","p","o","i","n","t"," ","l","i","v","i","n","g">>,
     <<"t","a","k","i","n","g"," ","m","y"," ","l","i","f","e">>,
     <<"e","n","d","i","n","g"," ","i","t"," ","a","l","l">>,
     <<"c","a","n","'","t"," ","g","o"," ","o","n">>,
     <<"g","i","v","i","n","g"," ","u","p"," ","o","n"," ","l","i","f","e">> >>

\* emergency_handler.py:47-66  crisis_indicators['self_harm']
eh_self_harm ==
  << <<"h","u","r","t"," ","m","y","s","e","l","f">>,
     <<"h","a","r","m"," ","m","y","s","e","l","f">>,
     <<"c","u","t"," ","m","y","s","e","l","f">>,
     <<"i","n","j","u","r","e"," ","m","y","s","e","l","f">>,
     <<"s","e","l","f"," ","h","a","r","m">>,
     <<"s","e","l","f"," ","i","n","j","u","r","y">>,
     <<"w","a","n","t"," ","t","o"," ","h","u","r","t">>,
     <<"c","u","t","t","i","n","g"," ","m","y","s","e","l","f">> >>

\* emergency_handler.py:47-66  crisis_indicators['severe_distress']
eh_severe_distress ==
  << <<"c","a","n","'","t"," ","t","a","k","e"," ","i","t"," ","a","n","y","m","o","r","e">>,
     <<"b","r","e","a","k","i","n","g"," ","p","o","i","n","t">>,
     <<"f","a","l","l","i","n","g"," ","a","p","a","r","t">>,
     <<"l","o","s","i","n","g"," ","c","o","n","t","r","o","l">>,
     <<"g","o","i","n","g"," ","c","r","a","z","y">>,
     <<"c","a","n","'","t"," ","h","a","n","d","l","e">>,
     <<"o","v","e","r","w","h","e","l","m","e","d"," ","c","o","m","p","l","e","t","e","l","y">>,
     <<"n","o","t","h","i","n","g"," ","m","a","t","t","e","r","s">>,
     <<"h","o","p","e","l","e","s","s">>,
     <<"t","r","a","p","p","e","d">>,
     <<"n","o"," ","w","a","y"," ","o","u","t">> >>

\* emergency_handler.py:47-66  crisis_indicators['substance_crisis']
eh_substance_crisis ==
  << <<"o","v","e","r","d","o","s","e">>,
     <<"t","o","o"," ","m","a","n","y"," ","p","i","l","l","s">>,
     <<"d","r","i","n","k","i","n","g"," ","t","o"," ","f","o","r","g","e","t">>,
     <<"u","s","i","n","g"," ","d","r","u","g","s"," ","t","o"," ","c","o","p","e">>,
     <<"c","a","n","'","t"," ","s","t","o","p"," ","d","r","i","n","k","i","n","g">>,
     <<"s","u","b","s","t","a","n","c","e"," ","a","b","u","s","e">> >>

\* `analysis` is the dict that the caller hands over
assess_crisis_level(message, analysis) ==
  LET message_lower == lower(message)
      immediate_danger_count == count_in(eh_immediate_danger, message_lower)
      self_harm_count        == count_in(eh_self_harm, message_lower)
      severe_distress_count  == count_in(eh_severe_distress, message_lower)
      substance_crisis_count == count_in(eh_substance_crisis, message_lower)
      sentiment_score ==
        get(get(analysis, "sentiment", <<>>), "compound", r_int(0))
      risk_indicators == get(analysis, "risk_indicators", <<>>)
      has(risk) == \E i \in 1..Len(risk_indicators) : risk_indicators[i] = risk
  IN  IF immediate_danger_count >= 1 \/ has("suicidal_ideation") THEN "emergency"
      ELSE IF self_harm_count >= 1 \/ has("self_harm") THEN "high"
      ELSE IF severe_distress_count >= 2 \/ r_less(sentiment_score, rat(-8, 10))
      THEN "moderate"
      ELSE IF severe_distress_count >= 1 \/ r_less(sentiment_score, rat(-5, 10))
      THEN "low"
      ELSE "none"

\* The response texts.  `crisis_line_24_7` says whether the text lists a
\* crisis line as available 24/7; `de_escalation` is the index of the phrase
\* that random.choice drew from de_escalation_responses (0: the text has none).
handle_emergency_crisis ==
  [payload |-> "emergency", crisis_line_24_7 |-> TRUE, de_escalation |-> 0]

handle_high_crisis ==
  [payload |-> "high", crisis_line_24_7 |-> TRUE, de_escalation |-> 0]

handle_moderate_crisis(choice) ==
  [payload |-> "moderate", crisis_line_24_7 |-> FALSE, de_escalation |-> choice]

handle_low_crisis ==
  [payload |-> "low", crisis_line_24_7 |-> FALSE, de_escalation |-> 0]

handle_general_support ==
  [payload |-> "general", crisis_line_24_7 |-> TRUE, de_escalation |-> 0]

\* len(self.de_escalation_responses)
de_escalation_pool == 5

\* `choice` is what random.choice draws if the moderate response is built
handle_crisis(message, analysis, choice) ==
  LET crisis_level == assess_crisis_level(message, analysis)
  IN  IF crisis_level = "emergency" THEN handle_emergency_crisis
      ELSE IF crisis_level = "high" THEN handle_high_crisis
      ELSE IF crisis_level = "moderate" THEN handle_moderate_crisis(choice)
      ELSE IF crisis_level = "low" THEN handle_low_crisis
      ELSE handle_general_support

-----------------------------------------------------------------------------
(* SentimentAnalyzer (sentiment_analyzer.py)                               *)

\* sentiment_analyzer.py:24-61  mental_health_keywords, weights in tenths
mental_health_keywords ==
  << [word |-> <<"a","n","x","i","e","t","y">>, weight |-> -8],
     [word |-> <<"a","n","x","i","o","u","s">>, weight |-> -7],
     [word |-> <<"w","o","r","r","i","e","d">>, weight |-> -6],
     [word |-> <<"s","t","r","e","s","s">>, weight |-> -7],
     [word |-> <<"s","t","r","e","s","s","e","d">>, weight |-> -8],
     [word |-> <<"d","e","p","r","e","s","s","i","o","n">>, weight |-> -9],
     [word |-> <<"d","e","p","r","e","s","s","e","d">>, weight |-> -8],
     [word |-> <<"s","a","d">>, weight |-> -6],
     [word |-> <<"o","v","e","r","w","h","e","l","m","e","d">>, weight |-> -8],
     [word |-> <<"h","o","p","e","l","e","s","s">>, weight |-> -9],
     [word |-> <<"e","x","h","a","u","s","t","e","d">>, weight |-> -7],
     [word |-> <<"t","i","r","e","d">>, weight |-> -5],
     [word |-> <<"b","u","r","n","o","u","t">>, weight |-> -8],
     [word |-> <<"p","a","n","i","c">>, weight |-> -8],
     [word |-> <<"f","e","a","r">>, weight |-> -7],
     [word |-> <<"a","f","r","a","i","d">>, weight |-> -7],
     [word |-> <<"l","o","n","e","l","y">>, weight |-> -7],
     [word |-> <<"i","s","o","l","a","t","e","d">>, weight |-> -7],
     [word |-> <<"w","o","r","t","h","l","e","s","s">>, weight |-> -9],
     [word |-> <<"e","m","p","t","y">>, weight |-> -8],
     [word |-> <<"n","u","m","b">>, weight |-> -7],
     [word |-> <<"a","n","g","r","y">>, weight |-> -6],
     [word |-> <<"f","r","u","s","t","r","a","t","e","d">>, weight |-> -6],
     [word |-> <<"i","r","r","i","t","a","t","e","d">>, weight |-> -5],
     [word |-> <<"h","a","p","p","y">>, weight |-> 7],
     [word |-> <<"j","o","y">>, weight |-> 8],
     [word |-> <<"e","x","c","i","t","e","d">>, weight |-> 7],
     [word |-> <<"g","r","a","t","e","f","u","l">>, weight |-> 8],
     [word |-> <<"p","e","a","c","e","f","u","l">>, weight |-> 7],
     [word |-> <<"c","a","l","m">>, weight |-> 6],
     [word |-> <<"r","e","l","a","x","e","d">>, weight |-> 6],
     [word |-> <<"c","o","n","f","i","d","e","n","t">>, weight |-> 7],
     [word |-> <<"h","o","p","e","f","u","l">>, weight |-> 8],
     [word |-> <<"o","p","t","i","m","i","s","t","i","c">>, weight |-> 8],
     [word |-> <<"e","n","e","r","g","e","t","i","c">>, weight |-> 7],
     [word |-> <<"m","o","t","i","v","a","t","e","d">>, weight |-> 7] >>

\* sentiment_analyzer.py:64-74  intensity_modifiers, multipliers in tenths
intensity_modifiers ==
  << [word |-> <<"v","e","r","y">>, factor |-> 13],
     [word |-> <<"e","x","t","r","e","m","e","l","y">>, factor |-> 15],
     [word |-> <<"r","e","a","l","l","y">>, factor |-> 12],
     [word |-> <<"q","u","i","t","e">>, factor |-> 11],
     [word |-> <<"s","o","m","e","w","h","a","t">>, factor |-> 8],
     [word |-> <<"s","l","i","g","h","t","l","y">>, factor |-> 7],
     [word |-> <<"a"," ","b","i","t">>, factor |-> 7],
     [word |-> <<"k","i","n","d"," ","o","f">>, factor |-> 8],
     [word |-> <<"s","o","r","t"," ","o","f">>, factor |-> 8] >>

\* the alternatives of r'\b(not|no|never|nothing|nobody|nowhere|neither|nor|none)\s+'
negation_words ==
  << <<"n","o","t">>, <<"n","o">>, <<"n","e","v","e","r">>,
     <<"n","o","t","h","i","n","g">>, <<"n","o","b","o","d","y">>,
     <<"n","o","w","h","e","r","e">>, <<"n","e","i","t","h","e","r">>,
     <<"n","o","r">>, <<"n","o","n","e">> >>

\* the number of whitespace characters of s from position i on
RECURSIVE whitespace_run(_, _)
whitespace_run(s, i) ==
  IF i <= Len(s) /\ s[i] \in Whitespace THEN 1 + whitespace_run(s, i + 1) ELSE 0

\* str.strip()
RECURSIVE strip(_)
strip(s) ==
  IF s = <<>> THEN <<>>
  ELSE IF s[1] \in Whitespace THEN strip(Tail(s))
  ELSE IF s[Len(s)] \in Whitespace THEN strip(SubSeq(s, 1, Len(s) - 1))
  ELSE s

\* re.sub(r'\s+', ' ', s), from position i on
RECURSIVE collapse_whitespace(_, _)
collapse_whitespace(s, i) ==
  IF i > Len(s) THEN <<>>
  ELSE IF s[i] \in Whitespace
  THEN <<" ">> \o collapse_whitespace(s, i + whitespace_run(s, i))
  ELSE <<s[i]>> \o collapse_whitespace(s, i + 1)

\* the length of the match of the negation pattern at position i, 0 if none:
\* the first alternative, in order, that is followed by whitespace
negation_match(s, i) ==
  IF ~word_boundary(s, i - 1) THEN 0
  ELSE LET ok == {a \in 1..Len(negation_words) :
                    /\ matches_at(s, i, negation_words[a])
                    /\ whitespace_run(s, i + Len(negation_words[a])) >= 1}
       IN  IF ok = {} THEN 0
           ELSE LET a == CHOOSE x \in ok : \A y \in ok : x <= y
                IN  Len(negation_words[a])
                      + whitespace_run(s, i + Len(negation_words[a]))

\* re.sub(negation pattern, 'not_', s), from position i on
RECURSIVE rewrite_negations(_, _)
rewrite_negations(s, i) ==
  IF i > Len(s) THEN <<>>
  ELSE LET n == negation_match(s, i)
       IN  IF n > 0 THEN <<"n","o","t","_">> \o rewrite_negations(s, i + n)
           ELSE <<s[i]>> \o rewrite_negations(s, i + 1)

preprocess_text(t) ==
  rewrite_negations(strip(collapse_whitespace(lower(t), 1)), 1)

\* str.split(): the words between runs of whitespace, from position i on
RECURSIVE split(_, _, _)
split(s, i, word) ==
  IF i > Len(s) THEN (IF word = <<>> THEN <<>> ELSE <<word>>)
  ELSE IF s[i] \in Whitespace
  THEN (IF word = <<>> THEN <<>> ELSE <<word>>) \o split(s, i + 1, <<>>)
  ELSE split(s, i + 1, Append(word, s[i]))

\* word in self.mental_health_keywords / self.intensity_modifiers
in_table(table, word) == \E k \in 1..Len(table) : table[k].word = word

lookup(table, word) == table[CHOOSE k \in 1..Len(table) : table[k].word = word]

\* the score of the keyword words[i]: its weight, times the multiplier of the
\* word before it if that is an intensity modifier
keyword_score(words, i) ==
  LET weight == rat(lookup(mental_health_keywords, words[i]).weight, 10)
  IN  IF i > 1 /\ in_table(intensity_modifiers, words[i - 1])
      THEN r_mul(weight, rat(lookup(intensity_modifiers, words[i - 1]).factor, 10))
      ELSE weight

\* total_score over the keywords among words[1..i]
RECURSIVE total_keyword_score(_, _)
total_keyword_score(words, i) ==
  IF i = 0 THEN r_int(0)
  ELSE IF in_table(mental_health_keywords, words[i])
  THEN r_add(total_keyword_score(words, i - 1), keyword_score(words, i))
  ELSE total_keyword_score(words, i - 1)

analyze_mental_health_keywords(t) ==
  LET words == split(t, 1, <<>>)
      keyword_count ==
        Cardinality({i \in 1..Len(words) :
                       in_table(mental_health_keywords, words[i])})
  IN  IF keyword_count > 0
      THEN r_mul(total_keyword_score(words, Len(words)), rat(1, keyword_count))
      ELSE r_int(0)

\* sentiment_analyzer.py:168-179  emotion_patterns; each pattern r'\b(a|b|...)\b' is
\* the list of its alternatives
emotion_patterns ==
  << [category |-> "anxiety", patterns |-> <<
        \* anxious|anxiety|worried|worry|nervous|panic|panicking
        << <<"a","n","x","i","o","u","s">>,
           <<"a","n","x","i","e","t","y">>,
           <<"w","o","r","r","i","e","d">>,
           <<"w","o","r","r","y">>,
           <<"n","e","r","v","o","u","s">>,
           <<"p","a","n","i","c">>,
           <<"p","a","n","i","c","k","i","n","g">> >> >>],
     [category |-> "depression", patterns |-> <<
        \* depressed|depression|sad|sadness|hopeless|empty|worthless
        << <<"d","e","p","r","e","s","s","e","d">>,
           <<"d","e","p","r","e","s","s","i","o","n">>,
           <<"s","a","d">>,
           <<"s","a","d","n","e","s","s">>,
           <<"h","o","p","e","l","e","s","s">>,
           <<"e","m","p","t","y">>,
           <<"w","o","r","t","h","l","e","s","s">> >> >>],
     [category |-> "stress", patterns |-> <<
        \* stressed|stress|overwhelmed|pressure|burden|exhausted
        << <<"s","t","r","e","s","s","e","d">>,
           <<"s","t","r","e","s","s">>,
           <<"o","v","e","r","w","h","e","l","m","e","d">>,
           <<"p","r","e","s","s","u","r","e">>,
           <<"b","u","r","d","e","n">>,
           <<"e","x","h","a","u","s","t","e","d">> >> >>],
     [category |-> "anger", patterns |-> <<
        \* angry|anger|frustrated|frustration|irritated|mad|furious
        << <<"a","n","g","r","y">>,
           <<"a","n","g","e","r">>,
           <<"f","r","u","s","t","r","a","t","e","d">>,
           <<"f","r","u","s","t","r","a","t","i","o","n">>,
           <<"i","r","r","i","t","a","t","e","d">>,
           <<"m","a","d">>,
           <<"f","u","r","i","o","u","s">> >> >>],
     [category |-> "fear", patterns |-> <<
        \* afraid|fear|scared|terrified|frightened
        << <<"a","f","r","a","i","d">>,
           <<"f","e","a","r">>,
           <<"s","c","a","r","e","d">>,
           <<"t","e","r","r","i","f","i","e","d">>,
           <<"f","r","i","g","h","t","e","n","e","d">> >> >>],
     [category |-> "loneliness", patterns |-> <<
        \* lonely|alone|isolated|disconnected
        << <<"l","o","n","e","l","y">>,
           <<"a","l","o","n","e">>,
           <<"i","s","o","l","a","t","e","d">>,
           <<"d","i","s","c","o","n","n","e","c","t","e","d">> >> >>],
     [category |-> "joy", patterns |-> <<
        \* happy|happiness|joy|joyful|excited|thrilled|delighted
        << <<"h","a","p","p","y">>,
           <<"h","a","p","p","i","n","e","s","s">>,
           <<"j","o","y">>,
           <<"j","o","y","f","u","l">>,
           <<"e","x","c","i","t","e","d">>,
           <<"t","h","r","i","l","l","e","d">>,
           <<"d","e","l","i","g","h","t","e","d">> >> >>],
     [category |-> "gratitude", patterns |-> <<
        \* grateful|thankful|blessed|appreciate|appreciation
        << <<"g","r","a","t","e","f","u","l">>,
           <<"t","h","a","n","k","f","u","l">>,
           <<"b","l","e","s","s","e","d">>,
           <<"a","p","p","r","e","c","i","a","t","e">>,
           <<"a","p","p","r","e","c","i","a","t","i","o","n">> >> >>],
     [category |-> "hope", patterns |-> <<
        \* hopeful|hope|optimistic|positive|confident
        << <<"h","o","p","e","f","u","l">>,
           <<"h","o","p","e">>,
           <<"o","p","t","i","m","i","s","t","i","c">>,
           <<"p","o","s","i","t","i","v","e">>,
           <<"c","o","n","f","i","d","e","n","t">> >> >>],
     [category |-> "calm", patterns |-> <<
        \* calm|peaceful|relaxed|serene|tranquil
        << <<"c","a","l","m">>,
           <<"p","e","a","c","e","f","u","l">>,
           <<"r","e","l","a","x","e","d">>,
           <<"s","e","r","e","n","e">>,
           <<"t","r","a","n","q","u","i","l">> >> >>] >>

\* sentiment_analyzer.py:191-200  risk_patterns
risk_patterns ==
  << [category |-> "suicidal_ideation", patterns |-> <<
        \* suicide|kill myself|end it all|want to die|no point living|better off dead
        << <<"s","u","i","c","i","d","e">>,
           <<"k","i","l","l"," ","m","y","s","e","l","f">>,
           <<"e","n","d"," ","i","t"," ","a","l","l">>,
           <<"w","a","n","t"," ","t","o"," ","d","i","e">>,
           <<"n","o"," ","p","o","i","n","t"," ","l","i","v","i","n","g">>,
           <<"b","e","t","t","e","r"," ","o","f","f"," ","d","e","a","d">> >> >>],
     [category |-> "self_harm", patterns |-> <<
        \* hurt myself|harm myself|cut myself|self harm
        << <<"h","u","r","t"," ","m","y","s","e","l","f">>,
           <<"h","a","r","m"," ","m","y","s","e","l","f">>,
           <<"c","u","t"," ","m","y","s","e","l","f">>,
           <<"s","e","l","f"," ","h","a","r","m">> >> >>],
     [category |-> "severe_depression", patterns |-> <<
        \* can't go on|giving up|no hope|nothing matters|worthless
        << <<"c","a","n","'","t"," ","g","o"," ","o","n">>,
           <<"g","i","v","i","n","g"," ","u","p">>,
           <<"n","o"," ","h","o","p","e">>,
           <<"n","o","t","h","i","n","g"," ","m","a","t","t","e","r","s">>,
           <<"w","o","r","t","h","l","e","s","s">> >> >>],
     [category |-> "panic_disorder", patterns |-> <<
        \* panic attack|can't breathe|heart racing|losing control
        << <<"p","a","n","i","c"," ","a","t","t","a","c","k">>,
           <<"c","a","n","'","t"," ","b","r","e","a","t","h","e">>,
           <<"h","e","a","r","t"," ","r","a","c","i","n","g">>,
           <<"l","o","s","i","n","g"," ","c","o","n","t","r","o","l">> >> >>],
     [category |-> "substance_abuse", patterns |-> <<
        \* drinking too much|using drugs|can't stop drinking|substance|addiction
        << <<"d","r","i","n","k","i","n","g"," ","t","o","o"," ","m","u","c","h">>,
           <<"u","s","i","n","g"," ","d","r","u","g","s">>,
           <<"c","a","n","'","t"," ","s","t","o","p"," ","d","r","i","n","k","i","n","g">>,
           <<"s","u","b","s","t","a","n","c","e">>,
           <<"a","d","d","i","c","t","i","o","n">> >> >>],
     [category |-> "eating_disorder", patterns |-> <<
        \* not eating|binge eating|purging|body image|too fat|too thin
        << <<"n","o","t"," ","e","a","t","i","n","g">>,
           <<"b","i","n","g","e"," ","e","a","t","i","n","g">>,
           <<"p","u","r","g","i","n","g">>,
           <<"b","o","d","y"," ","i","m","a","g","e">>,
           <<"t","o","o"," ","f","a","t">>,
           <<"t","o","o"," ","t","h","i","n">> >> >>],
     [category |-> "sleep_disorder", patterns |-> <<
        \* can't sleep|insomnia|nightmares|sleeping too much|sleep problems
        << <<"c","a","n","'","t"," ","s","l","e","e","p">>,
           <<"i","n","s","o","m","n","i","a">>,
           <<"n","i","g","h","t","m","a","r","e","s">>,
           <<"s","l","e","e","p","i","n","g"," ","t","o","o"," ","m","u","c","h">>,
           <<"s","l","e","e","p"," ","p","r","o","b","l","e","m","s">> >> >>],
     [category |-> "social_withdrawal", patterns |-> <<
        \* avoiding people|don't want to see anyone|isolating|withdrawing
        << <<"a","v","o","i","d","i","n","g"," ","p","e","o","p","l","e">>,
           <<"d","o","n","'","t"," ","w","a","n","t"," ","t","o"," ","s","e","e"," ","a","n","y","o","n","e">>,
           <<"i","s","o","l","a","t","i","n","g">>,
           <<"w","i","t","h","d","r","a","w","i","n","g">> >> >>] >>

\* the alternative of the pattern r'\b(a1|a2|...)\b' that matches at position i
\* of s, 0 if none does
match_at(pattern, s, i) ==
  LET hits == {a \in 1..Len(pattern) :
                 /\ word_boundary(s, i - 1)
                 /\ matches_at(s, i, pattern[a])
                 /\ word_boundary(s, i + Len(pattern[a]) - 1)}
  IN  IF hits = {} THEN 0 ELSE CHOOSE a \in hits : \A b \in hits : a <= b

\* len(re.findall(pattern, s)): the matches from position i on, none
\* overlapping another
RECURSIVE findall_count(_, _, _)
findall_count(pattern, s, i) ==
  IF i > Len(s) THEN 0
  ELSE LET a == match_at(pattern, s, i)
       IN  IF a = 0 THEN findall_count(pattern, s, i + 1)
           ELSE 1 + findall_count(pattern, s, i + Len(pattern[a]))

\* detect_emotions(t): the dict of the emotions found, each with the number of
\* its matches
detect_emotions(t) ==
  LET s == lower(t)
      found == {k \in 1..Len(emotion_patterns) :
                  re_search(emotion_patterns[k].patterns[1], s)}
  IN  [e \in {emotion_patterns[k].category : k \in found} |->
         LET k == CHOOSE k \in found : emotion_patterns[k].category = e
         IN  findall_count(emotion_patterns[k].patterns[1], s, 1)]

\* detect_risk_indicators(t): the risk types whose pattern is found, in the
\* order of the table
detect_risk_indicators(t) == matching_categories(risk_patterns, lower(t))

\* vader_scores['compound'] * 0.4 + textblob_polarity * 0.3 + mh_score * 0.3
combined_compound(vader_compound, textblob_polarity, mh_score) ==
  r_add(r_add(r_mul(vader_compound, rat(4, 10)),
              r_mul(textblob_polarity, rat(3, 10))),
        r_mul(mh_score, rat(3, 10)))

\* whether analyze returns before it cleans the text and calls the libraries
is_blank(t) == t = <<>> \/ strip(t) = <<>>

\* SentimentAnalyzer.analyze(t); vader_compound and textblob_polarity are what
\* the VADER and TextBlob libraries return for the cleaned text.  Of the
\* returned dict, the entries that the modelled callers read.
analyze(t, vader_compound, textblob_polarity) ==
  IF is_blank(t)
  THEN [compound |-> r_int(0), positive |-> 0, negative |-> 0, neutral |-> 1]
  ELSE LET cleaned_text == preprocess_text(t)
           mh_score == analyze_mental_health_keywords(cleaned_text)
       IN  [compound |-> combined_compound(vader_compound, textblob_polarity,
                                           mh_score),
            textblob_polarity |-> textblob_polarity,
            mental_health_score |-> mh_score,
            emotions |-> detect_emotions(cleaned_text),
            risk_indicators |-> detect_risk_indicators(cleaned_text),
            text_length |-> Len(t)]

-----------------------------------------------------------------------------
(* The user profile (app.py)                                               *)

\* st.session_state.user_profile as init_session_state creates it;
\* last_check_in is <<>> for None and <<t>> for the time t
initial_user_profile ==
  [stress_level       |-> r_int(0),
   anxiety_indicators |-> <<>>,
   burnout_risk       |-> "low",
   conversation_count |-> 0,
   last_check_in      |-> <<>>]

\* 5 - compound * 5, not clamped
new_stress_unclamped(compound) == r_sub(r_int(5), r_mul(compound, r_int(5)))

\* max(0, min(10, 5 - (compound * 5)))
new_stress_of(compound) ==
  r_clamp(r_int(0), r_int(10), r_sub(r_int(5), r_mul(compound, r_int(5))))

\* the first ten entries instead of the last ten
keep_recent_first_ten(indicators) ==
  SubSeq(indicators, 1, IF Len(indicators) > 10 THEN 10 ELSE Len(indicators))

\* profile['anxiety_indicators'][-10:]
keep_recent(indicators) ==
  SubSeq(indicators, IF Len(indicators) > 10 THEN Len(indicators) - 9 ELSE 1,
         Len(indicators))

assess_burnout_risk(profile) ==
  LET stress_level  == get(profile, "stress_level", r_int(0))
      anxiety_count == Len(get(profile, "anxiety_indicators", <<>>))
  IN  IF r_less(r_int(7), stress_level) /\ anxiety_count > 5 THEN "high"
      ELSE IF r_less(r_int(5), stress_level) /\ anxiety_count > 3 THEN "medium"
      ELSE "low"

\* update_user_profile with the weights of the rolling average exchanged
update_user_profile_weights_swapped(profile, analysis, now) ==
  LET with_stress ==
        IF "sentiment" \in DOMAIN analysis
        THEN LET new_stress ==
                   new_stress_of(get(analysis.sentiment, "compound", r_int(0)))
             IN  [profile EXCEPT !.stress_level =
                    r_add(r_mul(@, rat(3, 10)), r_mul(new_stress, rat(7, 10)))]
        ELSE profile
      with_indicators ==
        IF get(analysis, "stress_indicators", <<>>) # <<>>
        THEN [with_stress EXCEPT !.anxiety_indicators =
                keep_recent(@ \o analysis.stress_indicators)]
        ELSE with_stress
  IN  [with_indicators EXCEPT !.burnout_risk = assess_burnout_risk(with_indicators),
                              !.conversation_count = @ + 1,
                              !.last_check_in = <<now>>]

\* update_user_profile(analysis) on the profile `profile` at time `now`
update_user_profile(profile, analysis, now) ==
  LET with_stress ==
        IF "sentiment" \in DOMAIN analysis
        THEN LET new_stress ==
                   new_stress_of(get(analysis.sentiment, "compound", r_int(0)))
             IN  [profile EXCEPT !.stress_level =
                    r_add(r_mul(@, rat(7, 10)), r_mul(new_stress, rat(3, 10)))]
        ELSE profile
      with_indicators ==
        IF get(analysis, "stress_indicators", <<>>) # <<>>
        THEN [with_stress EXCEPT !.anxiety_indicators =
                keep_recent(@ \o analysis.stress_indicators)]
        ELSE with_stress
  IN  [with_indicators EXCEPT !.burnout_risk = assess_burnout_risk(with_indicators),
                              !.conversation_count = @ + 1,
                              !.last_check_in = <<now>>]

-----------------------------------------------------------------------------
(* DataHandler (data_handler.py)                                            *)
(*                                                                         *)
(* datetime values are clock ticks, TicksPerDay of them to a calendar day. *)
(* A table is the sequence of its rows in insertion order; NULL is <<>>.   *)
(* A session identifier is a string, None and '' the empty string.         *)

TicksPerDay == 4

\* timedelta(days=n)
days(n) == n * TicksPerDay

\* now.strftime("%Y-%m-%d"): the calendar date of a datetime
strftime_date(now) == "day" \o ToString(now \div TicksPerDay)

\* str(uuid.uuid4()) for the uuid-th value drawn: every draw is a new string
uuid4(uuid) == "uuid4-" \o ToString(uuid)

\* hashlib.sha256(combined.encode()).hexdigest()[:16]: different strings give
\* different digests (no collision among the strings of the model)
sha256_16(combined) == <<"sha256", combined>>

\* _generate_session_hash with the calendar date left out of the hashed string
generate_session_hash_undated(identifier, uuid, now) ==
  LET base_string == IF identifier # "" THEN identifier ELSE uuid4(uuid)
  IN  sha256_16(base_string)

\* _generate_session_hash with the datetime, not its date, in the hashed string
generate_session_hash_timed(identifier, uuid, now) ==
  LET base_string == IF identifier # "" THEN identifier ELSE uuid4(uuid)
  IN  sha256_16(base_string \o "_" \o ToString(now))

\* _generate_session_hash(identifier) called at `now`; uuid is the number of
\* the uuid4 value it draws when the identifier is None or empty
generate_session_hash(identifier, uuid, now) ==
  LET base_string == IF identifier # "" THEN identifier ELSE uuid4(uuid)
      date_string == strftime_date(now)
      combined    == base_string \o "_" \o date_string
  IN  sha256_16(combined)

\* cipher_suite.encrypt(content)
encrypt(content) == <<"encrypted", content>>

\* the row that store_conversation_data(data, session_id) inserts at `now`
conversation_row(data, session_id, uuid, now) ==
  [session_hash      |-> generate_session_hash(session_id, uuid, now),
   timestamp         |-> get(data, "timestamp", now),
   sentiment_score   |-> get(get(data, "sentiment", <<>>), "compound", r_int(0)),
   stress_level      |-> get(data, "stress_level", r_int(0)),
   urgency_level     |-> get(data, "urgency", "low"),
   emotions          |-> get(get(data, "sentiment", <<>>), "emotions", <<>>),
   risk_indicators   |-> get(data, "risk_indicators", <<>>),
   encrypted_content |-> IF "message_content" \in DOMAIN data
                         THEN encrypt(data.message_content)
                         ELSE <<>>]

\* the row that store_wellness_activity inserts at `now`
activity_row(session_id, activity_type, effectiveness_rating, uuid, now) ==
  [session_hash         |-> generate_session_hash(session_id, uuid, now),
   activity_type        |-> activity_type,
   timestamp            |-> now,
   effectiveness_rating |-> effectiveness_rating]

\* cleanup_old_data with the UPDATE bound to cutoff_date, not anonymize_date
cleanup_old_data_one_cutoff(convs, now, retention_days, anonymize_days, fault) ==
  LET cutoff_date == now - days(retention_days)
      kept   == SelectSeq(convs, LAMBDA r : ~(r.timestamp < cutoff_date))
      stale  == {i \in 1..Len(kept) :
                   /\ kept[i].timestamp < cutoff_date
                   /\ kept[i].encrypted_content # <<>>}
      updated == [i \in 1..Len(kept) |->
                    IF i \in stale
                    THEN [kept[i] EXCEPT !.encrypted_content = <<>>]
                    ELSE kept[i]]
  IN  IF fault # "none"
      THEN [conversations |-> convs, returned |-> [error |-> "exception"]]
      ELSE [conversations |-> updated,
            returned |-> [deleted_conversations    |-> Len(convs) - Len(kept),
                          anonymized_conversations |-> Cardinality(stale),
                          status                   |-> "success"]]

\* cleanup_old_data with the UPDATE lacking "AND encrypted_content IS NOT NULL"
cleanup_old_data_updates_null(convs, now, retention_days, anonymize_days, fault) ==
  LET cutoff_date    == now - days(retention_days)
      anonymize_date == now - days(anonymize_days)
      kept   == SelectSeq(convs, LAMBDA r : ~(r.timestamp < cutoff_date))
      stale  == {i \in 1..Len(kept) : kept[i].timestamp < anonymize_date}
      updated == [i \in 1..Len(kept) |->
                    IF i \in stale
                    THEN [kept[i] EXCEPT !.encrypted_content = <<>>]
                    ELSE kept[i]]
  IN  IF fault # "none"
      THEN [conversations |-> convs, returned |-> [error |-> "exception"]]
      ELSE [conversations |-> updated,
            returned |-> [deleted_conversations    |-> Len(convs) - Len(kept),
                          anonymized_conversations |-> Cardinality(stale),
                          status                   |-> "success"]]

\* cleanup_old_data whose UPDATE also resets the sentiment score of the rows
\* it anonymizes
cleanup_old_data_scrubs_scores(convs, now, retention_days, anonymize_days, fault) ==
  LET cutoff_date    == now - days(retention_days)
      anonymize_date == now - days(anonymize_days)
      kept   == SelectSeq(convs, LAMBDA r : ~(r.timestamp < cutoff_date))
      stale  == {i \in 1..Len(kept) :
                   /\ kept[i].timestamp < anonymize_date
                   /\ kept[i].encrypted_content # <<>>}
      updated == [i \in 1..Len(kept) |->
                    IF i \in stale
                    THEN [kept[i] EXCEPT !.encrypted_content = <<>>,
                                         !.sentiment_score = r_int(1)]
                    ELSE kept[i]]
  IN  IF fault # "none"
      THEN [conversations |-> convs, returned |-> [error |-> "exception"]]
      ELSE [conversations |-> updated,
            returned |-> [deleted_conversations    |-> Len(convs) - Len(kept),
                          anonymized_conversations |-> Cardinality(stale),
                          status                   |-> "success"]]

\* cleanup_old_data() called at `now` on the conversations table; `fault` is
\* the statement that raises, if any.  The statements run in one transaction
\* ("with sqlite3.connect(...) as conn"), which is rolled back when one raises.
cleanup_old_data(convs, now, retention_days, anonymize_days, fault) ==
  LET cutoff_date    == now - days(retention_days)
      anonymize_date == now - days(anonymize_days)
      kept   == SelectSeq(convs, LAMBDA r : ~(r.timestamp < cutoff_date))
      stale  == {i \in 1..Len(kept) :
                   /\ kept[i].timestamp < anonymize_date
                   /\ kept[i].encrypted_content # <<>>}
      updated == [i \in 1..Len(kept) |->
                    IF i \in stale
                    THEN [kept[i] EXCEPT !.encrypted_content = <<>>]
                    ELSE kept[i]]
  IN  IF fault # "none"
      THEN [conversations |-> convs, returned |-> [error |-> "exception"]]
      ELSE [conversations |-> updated,
            returned |-> [deleted_conversations    |-> Len(convs) - Len(kept),
                          anonymized_conversations |-> Cardinality(stale),
                          status                   |-> "success"]]

\* the statements of delete_user_data that can raise, in order
DeleteFaults == {"none", "first_delete", "second_delete", "commit"}

\* delete_user_data with every statement committed as it is executed
delete_user_data_autocommit(convs, acts, session_hash, fault) ==
  LET convs_left == SelectSeq(convs, LAMBDA r : r.session_hash # session_hash)
      acts_left  == SelectSeq(acts, LAMBDA r : r.session_hash # session_hash)
  IN  IF fault = "first_delete"
      THEN [conversations |-> convs, wellness_activities |-> acts,
            returned |-> FALSE]
      ELSE IF fault = "second_delete"
      THEN [conversations |-> convs_left, wellness_activities |-> acts,
            returned |-> FALSE]
      ELSE [conversations |-> convs_left, wellness_activities |-> acts_left,
            returned |-> fault = "none"]

\* delete_user_data on the two tables, session_hash being the hash it computed;
\* `fault` is the statement that raises, if any.  Both DELETE statements run in
\* one transaction, which is rolled back when a statement or the commit raises.
delete_user_data(convs, acts, session_hash, fault) ==
  LET convs_left == SelectSeq(convs, LAMBDA r : r.session_hash # session_hash)
      acts_left  == SelectSeq(acts, LAMBDA r : r.session_hash # session_hash)
  IN  IF fault # "none"
      THEN [conversations |-> convs, wellness_activities |-> acts,
            returned |-> FALSE]
      ELSE [conversations |-> convs_left, wellness_activities |-> acts_left,
            returned |-> TRUE]

\* SELECT of the named columns: the row restricted to them
columns(r, names) == [c \in names |-> r[c]]

\* export_user_data with "SELECT *" on the conversations table
export_user_data_all_columns(convs, acts, session_hash, now) ==
  LET conv_rows == SelectSeq(convs, LAMBDA r : r.session_hash = session_hash)
      act_rows  == SelectSeq(acts, LAMBDA r : r.session_hash = session_hash)
  IN  [export_date |-> now,
       session_id  |-> <<"first 8 of", session_hash, "***">>,
       conversations |-> conv_rows,
       wellness_activities |->
         [i \in 1..Len(act_rows) |->
            columns(act_rows[i], {"timestamp", "activity_type",
                                  "effectiveness_rating"})],
       summary |-> [total_conversations |-> Len(conv_rows),
                    total_activities    |-> Len(act_rows)]]

\* export_user_data(session_id) at `now`, session_hash being the hash it
\* computed
export_user_data(convs, acts, session_hash, now) ==
  LET conv_rows == SelectSeq(convs, LAMBDA r : r.session_hash = session_hash)
      act_rows  == SelectSeq(acts, LAMBDA r : r.session_hash = session_hash)
  IN  [export_date |-> now,
       session_id  |-> <<"first 8 of", session_hash, "***">>,
       conversations |->
         [i \in 1..Len(conv_rows) |->
            columns(conv_rows[i], {"timestamp", "sentiment_score", "stress_level",
                                   "urgency_level", "emotions"})],
       wellness_activities |->
         [i \in 1..Len(act_rows) |->
            columns(act_rows[i], {"timestamp", "activity_type",
                                  "effectiveness_rating"})],
       summary |-> [total_conversations |-> Len(conv_rows),
                    total_activities    |-> Len(act_rows)]]

\* the rows that get_user_trends(session_id, days) and, with no session
\* filter and without the emotions column, get_aggregated_analytics(days)
\* select at `now`; what they return (counts, means, date range) is computed
\* from these columns
trend_rows(convs, by_session, session_hash, day_count, now) ==
  LET start_date == now - days(day_count)
      rows == SelectSeq(convs, LAMBDA r :
                      /\ by_session => r.session_hash = session_hash
                      /\ ~(r.timestamp < start_date))
      selected(r) == [date            |-> strftime_date(r.timestamp),
                      sentiment_score |-> r.sentiment_score,
                      stress_level    |-> r.stress_level,
                      urgency_level   |-> r.urgency_level]
  IN  [i \in 1..Len(rows) |->
         IF by_session
         THEN selected(rows[i]) @@ [emotions |-> rows[i].emotions]
         ELSE selected(rows[i])]

\* get_user_trends / get_aggregated_analytics: the counts they return
trend_summary(rows) ==
  IF rows = <<>>
  THEN [error |-> "No data available"]
  ELSE [data_points |-> Len(rows),
        dates       |-> {rows[i].date : i \in 1..Len(rows)},
        urgency_distribution |->
          [u \in {rows[i].urgency_level : i \in 1..Len(rows)} |->
             Cardinality({i \in 1..Len(rows) : rows[i].urgency_level = u})]]

\* get_privacy_report() at `now`
get_privacy_report(convs, retention_days, anonymize_days, now) ==
  LET old_cutoff == now - days(retention_days)
      encrypted  == SelectSeq(convs, LAMBDA r : r.encrypted_content # <<>>)
      old        == SelectSeq(convs, LAMBDA r : r.timestamp < old_cutoff)
  IN  [total_conversations         |-> Len(convs),
       encrypted_records           |-> Len(encrypted),
       old_records_needing_cleanup |-> Len(old),
       data_retention_days         |-> retention_days,
       anonymization_days          |-> anonymize_days,
       privacy_compliant           |-> Len(old) = 0]

\* PrivacyManager.data_categories: the retention policy per data category
data_categories ==
  [conversation_content |-> [retention_days |-> 7, encryption_required |-> TRUE,
                             anonymization_after_days |-> 1],
   sentiment_analysis   |-> [retention_days |-> 30, encryption_required |-> FALSE,
                             anonymization_after_days |-> 7],
   stress_indicators    |-> [retention_days |-> 30, encryption_required |-> FALSE,
                             anonymization_after_days |-> 7],
   wellness_activities  |-> [retention_days |-> 90, encryption_required |-> FALSE,
                             anonymization_after_days |-> 14],
   crisis_logs          |-> [retention_days |-> 365, encryption_required |-> TRUE,
                             anonymization_after_days |-> 30]]

-----------------------------------------------------------------------------
(* The chat loop (app.py): analyze_message, generate_response, main        *)

\* messages[-5:]
last_five(msgs) ==
  SubSeq(msgs, IF Len(msgs) > 5 THEN Len(msgs) - 4 ELSE 1, Len(msgs))

\* the contents of the user messages among the last five, in order
recent_user_texts(msgs) ==
  LET recent == SelectSeq(last_five(msgs), LAMBDA m : m.role = "user")
  IN  [i \in 1..Len(recent) |-> recent[i].content]

\* the cleaned texts that analyze_message hands to VADER and TextBlob: the
\* message itself and the user messages among the last five
library_inputs(message, msgs) ==
  {preprocess_text(t) :
     t \in {u \in {message} \cup {recent_user_texts(msgs)[i] :
                                   i \in 1..Len(recent_user_texts(msgs))} :
              ~is_blank(u)}}

\* sentiment_analyzer.analyze(t), the libraries answering by `oracle`
analyze_with(t, oracle) ==
  IF is_blank(t) THEN analyze(t, r_int(0), r_int(0))
  ELSE LET p == oracle[preprocess_text(t)]
       IN  analyze(t, rat(p[1], 10), rat(p[2], 10))

analyze_conversation_context(msgs, oracle) ==
  LET texts == recent_user_texts(msgs)
      sentiments ==
        [i \in 1..Len(texts) |->
           get(analyze_with(texts[i], oracle), "compound", r_int(0))]
      n == Len(sentiments)
      mood_trend ==
        IF n >= 2 /\ r_less(sentiments[n], r_sub(sentiments[1], rat(2, 10)))
        THEN "declining"
        ELSE IF n >= 2 /\ r_less(r_add(sentiments[1], rat(2, 10)), sentiments[n])
        THEN "improving"
        ELSE "stable"
  IN  [conversation_length |-> Len(msgs),
       recent_topics       |-> <<>>,
       mood_trend          |-> mood_trend,
       engagement_level    |-> "medium"]

\* analyze_message with the urgency raised to 'emergency' for a message that
\* is not classified 'low' while the mood trend of the conversation declines
analysis_of_trend_escalated(message, msgs, oracle, now) ==
  LET sentiment_score   == analyze_with(message, oracle)
      stress_indicators == detect_stress_signals(message)
      context           == analyze_conversation_context(msgs, oracle)
      urgency == assess_urgency(message, sentiment_score, stress_indicators)
  IN  [sentiment         |-> sentiment_score,
       stress_indicators |-> stress_indicators,
       context           |-> context,
       timestamp         |-> now,
       message_length    |-> Len(message),
       urgency_level     |-> IF context.mood_trend = "declining" /\ urgency # "low"
                             THEN "emergency" ELSE urgency]

\* the dict that analyze_message builds when no step raises
analysis_of(message, msgs, oracle, now) ==
  LET sentiment_score   == analyze_with(message, oracle)
      stress_indicators == detect_stress_signals(message)
  IN  [sentiment         |-> sentiment_score,
       stress_indicators |-> stress_indicators,
       context           |-> analyze_conversation_context(msgs, oracle),
       timestamp         |-> now,
       message_length    |-> Len(message),
       urgency_level     |-> assess_urgency(message, sentiment_score,
                                            stress_indicators)]

\* the dict that analyze_message returns when a step raises
analysis_error == [error |-> "exception"]

\* generate_response with the companion called before the urgency is looked at
generate_response_companion_first(message, analysis, choice) ==
  LET urgency == get(analysis, "urgency_level", "low")
  IN  IF urgency = "emergency"
      THEN [response       |-> handle_crisis(message, analysis, choice),
            urgency        |-> urgency,
            gpt_invoked    |-> TRUE,
            crisis_handler |-> TRUE]
      ELSE [response       |-> [payload |-> "gpt"],
            urgency        |-> urgency,
            gpt_invoked    |-> TRUE,
            crisis_handler |-> FALSE]

\* generate_response(message, analysis): the response, the urgency it acted
\* on, and which collaborator produced it.  The text that the companion
\* (gpt_health_companion_response) and the wellness recommender return is
\* [payload |-> "gpt"].
generate_response(message, analysis, choice) ==
  LET urgency == get(analysis, "urgency_level", "low")
  IN  IF urgency = "emergency"
      THEN [response       |-> handle_crisis(message, analysis, choice),
            urgency        |-> urgency,
            gpt_invoked    |-> FALSE,
            crisis_handler |-> TRUE]
      ELSE [response       |-> [payload |-> "gpt"],
            urgency        |-> urgency,
            gpt_invoked    |-> TRUE,
            crisis_handler |-> FALSE]

\* the dict that main hands to store_conversation_data
conversation_data(analysis, profile, now) ==
  [timestamp    |-> now,
   sentiment    |-> get(analysis, "sentiment", <<>>),
   stress_level |-> profile.stress_level,
   urgency      |-> get(analysis, "urgency_level", "low")]

-----------------------------------------------------------------------------
(* Texts: every text typed from at most MaxPieces pieces of a vocabulary   *)

MaxPieces == 2

RECURSIVE typed_texts(_, _)
typed_texts(vocab, n) ==
  IF n = 0 THEN {<<>>}
  ELSE LET shorter == typed_texts(vocab, n - 1)
       IN  shorter \cup {t \o vocab[p] : t \in shorter, p \in 1..Len(vocab)}

StressPieces ==
  << \* "I want to kill myself "
     <<"I"," ","w","a","n","t"," ","t","o"," ","k","i","l","l"," ","m","y","s","e","l","f"," ">>,
     \* "feeling hopeless "
     <<"f","e","e","l","i","n","g"," ","h","o","p","e","l","e","s","s"," ">>,
     \* "thinking about hurting myself "
     <<"t","h","i","n","k","i","n","g"," ","a","b","o","u","t"," ","h","u","r","t","i","n","g"," ","m","y","s","e","l","f"," ">>,
     \* "work and money and exam and family "
     <<"w","o","r","k"," ","a","n","d"," ","m","o","n","e","y"," ","a","n","d"," ","e","x","a","m"," ","a","n","d"," ","f","a","m","i","l","y"," ">>,
     \* "Tired, anxious, angry, drinking, sick "
     <<"T","i","r","e","d",","," ","a","n","x","i","o","u","s",","," ","a","n","g","r","y",","," ","d","r","i","n","k","i","n","g",","," ","s","i","c","k"," ">>,
     \* "started therapy "
     <<"s","t","a","r","t","e","d"," ","t","h","e","r","a","p","y"," ">>,
     \* "WORK "
     <<"W","O","R","K"," ">>,
     \* "networks "
     <<"n","e","t","w","o","r","k","s"," ">>,
     \* "too much "
     <<"t","o","o"," ","m","u","c","h"," ">>,
     \* "fine "
     <<"f","i","n","e"," ">> >>

StressTexts == typed_texts(StressPieces, MaxPieces)

\* assess_stress_level on every text of StressTexts, evaluated once
AssessmentOf == [t \in StressTexts |-> assess_stress_level(t)]

NoCall == [called |-> FALSE]

-----------------------------------------------------------------------------
(* Inputs of assess_urgency and update_user_profile                        *)

UrgencyPieces ==
  << \* "I want to KILL MYSELF "
     <<"I"," ","w","a","n","t"," ","t","o"," ","K","I","L","L"," ","M","Y","S","E","L","F"," ">>,
     \* "piano pointers "
     <<"p","i","a","n","o"," ","p","o","i","n","t","e","r","s"," ">>,
     \* "Panic Attack again "
     <<"P","a","n","i","c"," ","A","t","t","a","c","k"," ","a","g","a","i","n"," ">>,
     \* "I can not cope "
     <<"I"," ","c","a","n"," ","n","o","t"," ","c","o","p","e"," ">>,
     \* "feeling Hopeless "
     <<"f","e","e","l","i","n","g"," ","H","o","p","e","l","e","s","s"," ">>,
     \* "work is fine "
     <<"w","o","r","k"," ","i","s"," ","f","i","n","e"," ">> >>

\* sentiment dicts, with compound values on, next to and beyond the thresholds
UrgencySentiments ==
  {[compound |-> rat(n, 100)] : n \in {-200, -71, -70, -31, -30, 0, 100}}

IndicatorLists ==
  { <<>>,
    <<"work_stress">>,
    <<"sleep_issues", "anxiety_markers">>,
    <<"work_stress", "sleep_issues", "overwhelm_markers">> }

MaxUpdates == 4

\* the analysis dicts handed to update_user_profile: compound values inside
\* and outside [-1, 1], and a dict without a 'sentiment' entry
ProfileAnalyses ==
  {[sentiment |-> [compound |-> rat(n, 10)], stress_indicators |-> l] :
     n \in {-20, -5, 3, 20},
     l \in {<<>>, <<"work_stress">>,
            <<"sleep_issues", "anxiety_markers", "overwhelm_markers">>}}
  \cup {[stress_indicators |-> <<"health_stress", "withdrawal">>]}

-----------------------------------------------------------------------------
(* State after construction                                                *)

vars == <<text, pieces, assessment, conversation_history, burnout,
          urgency_call, user_profile, indicator_arrivals, pc, user_input,
          messages, main_analysis, reply, gpt_calls, conversations, log, polarity,
          uuid_drawn, turn_events, sentiment_call, clock, data_retention_days,
          anonymize_after_days, wellness_activities, store_result,
          store_calls, reserved_lock, store_conn, sweep_conn, acknowledged,
          key_file, handlers, keys_generated>>

\* the DataHandler objects under construction: main() builds one per script
\* run, each session in its own thread
Handlers == {"h1", "h2", "h3"}

StressInit ==
  /\ text = <<>>
  /\ pieces = 0
  /\ assessment = NoCall

BurnoutInit ==
  /\ conversation_history = <<>>
  /\ burnout = NoCall

UrgencyInit == urgency_call = NoCall

\* init_session_state
ProfileInit ==
  /\ user_profile = initial_user_profile
  /\ indicator_arrivals = <<>>

\* MentalHealthChatbot.__init__ and init_session_state, an empty database
ChatInit ==
  /\ pc = "idle"
  /\ user_input = <<>>
  /\ messages = <<>>
  /\ main_analysis = NoCall
  /\ reply = NoCall
  /\ gpt_calls = 0
  /\ conversations = <<>>
  /\ log = <<>>
  /\ polarity = <<>>
  /\ uuid_drawn = 0
  /\ turn_events = <<>>

SentimentInit == sentiment_call = NoCall

\* DataHandler.__init__ on a new database
StoreInit ==
  /\ clock = 0
  /\ data_retention_days = 30
  /\ anonymize_after_days = 7
  /\ wellness_activities = <<>>
  /\ store_result = NoCall
  /\ store_calls = 0

\* no call is in progress on the database
ConnectionInit ==
  /\ reserved_lock = "none"
  /\ store_conn = [pc |-> "idle"]
  /\ sweep_conn = [pc |-> "idle"]
  /\ acknowledged = {}

\* no key file yet, no DataHandler constructed
KeyInit ==
  /\ key_file = [exists |-> FALSE]
  /\ handlers = [h \in Handlers |-> [pc |-> "start"]]
  /\ keys_generated = 0

Init ==
  /\ StressInit /\ BurnoutInit /\ UrgencyInit /\ ProfileInit /\ ChatInit
  /\ SentimentInit /\ StoreInit /\ ConnectionInit /\ KeyInit

stressVars == <<text, pieces, assessment>>
burnoutVars == <<conversation_history, burnout>>
urgencyVars == <<urgency_call>>
profileVars == <<user_profile, indicator_arrivals>>
chatVars == <<pc, user_input, messages, main_analysis, reply, gpt_calls,
              conversations, log, polarity, uuid_drawn, turn_events>>
sentimentVars == <<sentiment_call>>
storeVars == <<clock, data_retention_days, anonymize_after_days,
               wellness_activities, store_result, store_calls>>
connectionVars == <<reserved_lock, store_conn, sweep_conn, acknowledged>>
keyVars == <<key_file, handlers, keys_generated>>
processVars == <<connectionVars, keyVars>>

-----------------------------------------------------------------------------
(* SpecStress: the stress detector called on one text after another        *)

\* stress_detector.assess_stress_level(t)
AssessStressLevel(t) ==
  /\ text' = t
  /\ assessment' = AssessmentOf[t]
  /\ UNCHANGED <<pieces, burnoutVars, urgencyVars, profileVars, chatVars,
                 sentimentVars, storeVars, processVars>>

StressNext == \E t \in StressTexts : AssessStressLevel(t)

SpecStress == Init /\ [][StressNext]_vars

-----------------------------------------------------------------------------
(* SpecBurnout: a conversation grows turn by turn and analyze_burnout_risk *)
(* is called on it, with and without the history argument                  *)

\* one more earlier message in the history the caller keeps
AddHistory(m) ==
  /\ burnout = NoCall
  /\ Len(conversation_history) < MaxHistory
  /\ conversation_history' = Append(conversation_history, m)
  /\ UNCHANGED <<burnout, stressVars, urgencyVars, profileVars, chatVars,
                 sentimentVars, storeVars, processVars>>

\* stress_detector.analyze_burnout_risk(t, conversation_history) when given,
\* stress_detector.analyze_burnout_risk(t) when not
AnalyzeBurnoutRisk(t, given) ==
  /\ burnout' = [text |-> t, history_given |-> given,
                 result |-> analyze_burnout_risk(t, given, conversation_history)]
  /\ UNCHANGED <<conversation_history, stressVars, urgencyVars, profileVars, chatVars,
                 sentimentVars, storeVars, processVars>>

\* the caller starts over with an empty history
NewConversation ==
  /\ burnout # NoCall
  /\ conversation_history' = <<>>
  /\ burnout' = NoCall
  /\ UNCHANGED <<stressVars, urgencyVars, profileVars, chatVars,
                 sentimentVars, storeVars, processVars>>

BurnoutNext ==
  \/ \E m \in 1..Len(HistoryMessages) : AddHistory(HistoryMessages[m])
  \/ \E t \in 1..Len(BurnoutTexts), given \in BOOLEAN :
       AnalyzeBurnoutRisk(BurnoutTexts[t], given)
  \/ NewConversation

SpecBurnout == Init /\ [][BurnoutNext]_vars

-----------------------------------------------------------------------------
(* SpecUrgency: a message is typed piece by piece and assess_urgency is    *)
(* called on it with a sentiment dict and a list of stress indicators      *)

TypePiece(p) ==
  /\ urgency_call = NoCall
  /\ pieces < MaxPieces
  /\ text' = text \o UrgencyPieces[p]
  /\ pieces' = pieces + 1
  /\ UNCHANGED <<assessment, burnoutVars, urgencyVars, profileVars, chatVars,
                 sentimentVars, storeVars, processVars>>

\* assess_urgency(text, sentiment, stress_indicators)
AssessUrgency(sentiment, stress_indicators) ==
  /\ urgency_call = NoCall
  /\ urgency_call' = [message |-> text, sentiment |-> sentiment,
                      stress_indicators |-> stress_indicators,
                      result |-> assess_urgency(text, sentiment, stress_indicators)]
  /\ UNCHANGED <<stressVars, burnoutVars, profileVars, chatVars,
                 sentimentVars, storeVars, processVars>>

\* the next message starts empty
NextMessage ==
  /\ urgency_call # NoCall
  /\ text' = <<>>
  /\ pieces' = 0
  /\ urgency_call' = NoCall
  /\ UNCHANGED <<assessment, burnoutVars, profileVars, chatVars,
                 sentimentVars, storeVars, processVars>>

UrgencyNext ==
  \/ \E p \in 1..Len(UrgencyPieces) : TypePiece(p)
  \/ \E s \in UrgencySentiments, l \in IndicatorLists : AssessUrgency(s, l)
  \/ NextMessage

SpecUrgency == Init /\ [][UrgencyNext]_vars

-----------------------------------------------------------------------------
(* SpecProfile: update_user_profile called on one analysis after another   *)

\* update_user_profile(analysis); indicator_arrivals keeps every indicator
\* that was ever appended, in order
UpdateUserProfile(analysis) ==
  /\ user_profile.conversation_count < MaxUpdates
  /\ user_profile' = update_user_profile(user_profile, analysis,
                                         user_profile.conversation_count + 1)
  /\ indicator_arrivals' =
       indicator_arrivals \o get(analysis, "stress_indicators", <<>>)
  /\ UNCHANGED <<stressVars, burnoutVars, urgencyVars, chatVars,
                 sentimentVars, storeVars, processVars>>

ProfileNext == \E a \in ProfileAnalyses : UpdateUserProfile(a)

SpecProfile == Init /\ [][ProfileNext]_vars

-----------------------------------------------------------------------------
(* SpecSentiment: a text is typed word by word and                         *)
(* SentimentAnalyzer.analyze is called on it, VADER and TextBlob answering *)
(* any value of their range                                                *)

SentimentWords ==
  <<
     \* "extremely "
     <<"e","x","t","r","e","m","e","l","y"," ">>,
     \* "hopeless "
     <<"h","o","p","e","l","e","s","s"," ">>,
     \* "very "
     <<"v","e","r","y"," ">>,
     \* "joy "
     <<"j","o","y"," ">>,
     \* "not "
     <<"n","o","t"," ">>,
     \* "fine "
     <<"f","i","n","e"," ">>,
     \* "a bit sad"
     <<"a"," ","b","i","t"," ","s","a","d">>,
     \* "no hope "
     <<"n","o"," ","h","o","p","e"," ">>,
     \* "eating "
     <<"e","a","t","i","n","g"," ">>,
     \* "want to die "
     <<"w","a","n","t"," ","t","o"," ","d","i","e"," ">> >>

\* what VADER (compound) and TextBlob (polarity) return, in tenths: [-1, 1]
LibraryPolarities == {-10, -5, 0, 5, 10}

TypeWord(w) ==
  /\ sentiment_call = NoCall
  /\ pieces < MaxPieces
  /\ text' = text \o SentimentWords[w]
  /\ pieces' = pieces + 1
  /\ UNCHANGED <<assessment, burnoutVars, urgencyVars, profileVars, chatVars,
                 sentimentVars, storeVars, processVars>>

\* sentiment_analyzer.analyze(text)
SentimentAnalyze(vader_compound, textblob_polarity) ==
  /\ sentiment_call = NoCall
  /\ sentiment_call' =
       [text |-> text,
        vader_compound |-> rat(vader_compound, 10),
        textblob_polarity |-> rat(textblob_polarity, 10),
        result |-> analyze(text, rat(vader_compound, 10),
                           rat(textblob_polarity, 10))]
  /\ UNCHANGED <<stressVars, burnoutVars, urgencyVars, profileVars, chatVars,
                 storeVars, processVars>>

\* the next text starts empty
NextText ==
  /\ sentiment_call # NoCall
  /\ text' = <<>>
  /\ pieces' = 0
  /\ sentiment_call' = NoCall
  /\ UNCHANGED <<assessment, burnoutVars, urgencyVars, profileVars, chatVars,
                 storeVars, processVars>>

SentimentNext ==
  \/ \E w \in 1..Len(SentimentWords) : TypeWord(w)
  \/ \E v \in LibraryPolarities, p \in LibraryPolarities : SentimentAnalyze(v, p)
  \/ NextText

SpecSentiment == Init /\ [][SentimentNext]_vars

-----------------------------------------------------------------------------
(* SpecStore: the DataHandler called by one client, one call after another, *)
(* while time passes between the calls                                     *)

MaxCalls == 3

\* the time that passes before a call reads the clock: a moment, 7 days, 30 days
ElapsedTicks == {1, days(7), days(30)}

\* session identifiers: none given, and one identifier
SessionIds == {"", "alice"}

\* the data dicts handed to store_conversation_data, without and with the
\* message content
StoreData ==
  {[stress_level |-> r_int(5), urgency |-> "low"],
   [stress_level |-> r_int(5), urgency |-> "low", message_content |-> "I am fine"]}

\* the values assigned to data_retention_days and anonymize_after_days
RetentionSettings == {<<30, 7>>, <<30, 0>>, <<0, 0>>, <<0, 7>>}

\* the variables of the chat loop that the DataHandler does not touch
loopVars == <<pc, user_input, messages, main_analysis, reply, gpt_calls,
              polarity, turn_events>>

otherVars == <<stressVars, burnoutVars, urgencyVars, profileVars, loopVars,
               sentimentVars, processVars>>

\* number of the uuid4 value that _generate_session_hash(session_id) draws
uuid_for(session_id) == IF session_id = "" THEN uuid_drawn + 1 ELSE uuid_drawn

\* data_handler.py:24-25  the two attributes are assigned new values
Configure(retention_days, anonymize_days) ==
  /\ store_calls < MaxCalls
  /\ <<retention_days, anonymize_days>> # <<data_retention_days, anonymize_after_days>>
  /\ data_retention_days' = retention_days
  /\ anonymize_after_days' = anonymize_days
  /\ store_result' = [op |-> "configure"]
  /\ UNCHANGED <<clock, store_calls, wellness_activities, conversations, log,
                 uuid_drawn, otherVars>>

\* store_conversation_data(data, session_id) returning True
StoreConversationData(elapsed, data, session_id) ==
  /\ store_calls < MaxCalls
  /\ store_calls' = store_calls + 1
  /\ clock' = clock + elapsed
  /\ uuid_drawn' = uuid_for(session_id)
  /\ conversations' =
       Append(conversations, conversation_row(data, session_id, uuid_drawn', clock'))
  /\ log' = Append(log, [level |-> "INFO", event |-> "Conversation data stored",
                         session |-> <<"first 8 of",
                                       generate_session_hash(session_id, uuid_drawn',
                                                             clock')>>])
  /\ store_result' =
       [op |-> "store_conversation_data", session_id |-> session_id, now |-> clock',
        session_hash |-> generate_session_hash(session_id, uuid_drawn', clock'),
        returned |-> TRUE]
  /\ UNCHANGED <<data_retention_days, anonymize_after_days, wellness_activities,
                 otherVars>>

\* store_conversation_data(data, session_id) when encrypting or inserting
\* raises: the error is logged and False returned
StoreConversationDataFault(elapsed, session_id) ==
  /\ store_calls < MaxCalls
  /\ store_calls' = store_calls + 1
  /\ clock' = clock + elapsed
  /\ uuid_drawn' = uuid_for(session_id)
  /\ log' = Append(log, [level |-> "ERROR", event |-> "Error storing conversation data"])
  /\ store_result' =
       [op |-> "store_conversation_data", session_id |-> session_id, now |-> clock',
        session_hash |-> generate_session_hash(session_id, uuid_drawn', clock'),
        returned |-> FALSE]
  /\ UNCHANGED <<data_retention_days, anonymize_after_days, wellness_activities,
                 conversations, otherVars>>

\* store_wellness_activity(session_id, activity_type) returning True
StoreWellnessActivity(elapsed, session_id) ==
  /\ store_calls < MaxCalls
  /\ store_calls' = store_calls + 1
  /\ clock' = clock + elapsed
  /\ uuid_drawn' = uuid_for(session_id)
  /\ wellness_activities' =
       Append(wellness_activities,
              activity_row(session_id, "breathing", <<>>, uuid_drawn', clock'))
  /\ store_result' =
       [op |-> "store_wellness_activity", session_id |-> session_id, now |-> clock',
        session_hash |-> generate_session_hash(session_id, uuid_drawn', clock'),
        returned |-> TRUE]
  /\ UNCHANGED <<data_retention_days, anonymize_after_days, conversations, log,
                 otherVars>>

\* cleanup_old_data()
CleanupOldData(elapsed, fault) ==
  /\ store_calls < MaxCalls
  /\ store_calls' = store_calls + 1
  /\ clock' = clock + elapsed
  /\ LET done == cleanup_old_data(conversations, clock', data_retention_days,
                                  anonymize_after_days, fault)
     IN  /\ conversations' = done.conversations
         /\ store_result' = [op |-> "cleanup_old_data", now |-> clock',
                             returned |-> done.returned]
         /\ log' = Append(log,
                     IF "error" \in DOMAIN done.returned
                     THEN [level |-> "ERROR", event |-> "Error during data cleanup"]
                     ELSE [level |-> "INFO", event |-> "Cleanup completed",
                           deleted |-> done.returned.deleted_conversations,
                           anonymized |-> done.returned.anonymized_conversations])
  /\ UNCHANGED <<data_retention_days, anonymize_after_days, wellness_activities,
                 uuid_drawn, otherVars>>

\* delete_user_data(session_id)
DeleteUserData(elapsed, session_id, fault) ==
  /\ store_calls < MaxCalls
  /\ store_calls' = store_calls + 1
  /\ clock' = clock + elapsed
  /\ uuid_drawn' = uuid_for(session_id)
  /\ LET session_hash == generate_session_hash(session_id, uuid_drawn', clock')
         done == delete_user_data(conversations, wellness_activities,
                                  session_hash, fault)
     IN  /\ conversations' = done.conversations
         /\ wellness_activities' = done.wellness_activities
         /\ store_result' = [op |-> "delete_user_data", session_id |-> session_id,
                             now |-> clock', session_hash |-> session_hash,
                             returned |-> done.returned]
         /\ log' = Append(log,
                     IF done.returned
                     THEN [level |-> "INFO", event |-> "User data deleted",
                           conversations |-> Len(conversations) - Len(conversations'),
                           activities |-> Len(wellness_activities)
                                            - Len(wellness_activities')]
                     ELSE [level |-> "ERROR", event |-> "Error deleting user data"])
  /\ UNCHANGED <<data_retention_days, anonymize_after_days, otherVars>>

StoreNext ==
  \/ \E s \in RetentionSettings : Configure(s[1], s[2])
  \/ \E e \in ElapsedTicks, d \in StoreData, id \in SessionIds :
       StoreConversationData(e, d, id)
  \/ \E e \in ElapsedTicks, id \in SessionIds : StoreConversationDataFault(e, id)
  \/ \E e \in ElapsedTicks, id \in SessionIds : StoreWellnessActivity(e, id)
  \/ \E e \in ElapsedTicks, f \in {"none", "update"} : CleanupOldData(e, f)
  \/ \E e \in ElapsedTicks, id \in SessionIds, f \in DeleteFaults :
       DeleteUserData(e, id, f)

SpecStore == Init /\ [][StoreNext]_vars

------------------------------------------------------------------------------
(* The read operations of the DataHandler, with the calls that fill the     *)
(* tables they read                                                         *)

\* the day counts handed to get_user_trends and get_aggregated_analytics
TrendDays == {7, 30}

\* what a read call leaves alone: it only returns a value
readUnchanged == <<data_retention_days, anonymize_after_days, wellness_activities,
                   conversations, log, otherVars>>

\* export_user_data(session_id)
ExportUserData(elapsed, session_id) ==
  /\ store_calls < MaxCalls
  /\ store_calls' = store_calls + 1
  /\ clock' = clock + elapsed
  /\ uuid_drawn' = uuid_for(session_id)
  /\ LET session_hash == generate_session_hash(session_id, uuid_drawn', clock')
     IN  store_result' =
           [op |-> "export_user_data", session_id |-> session_id, now |-> clock',
            session_hash |-> session_hash,
            returned |-> export_user_data(conversations, wellness_activities,
                                          session_hash, clock')]
  /\ UNCHANGED readUnchanged

\* get_user_trends(session_id, days)
GetUserTrends(elapsed, session_id, day_count) ==
  /\ store_calls < MaxCalls
  /\ store_calls' = store_calls + 1
  /\ clock' = clock + elapsed
  /\ uuid_drawn' = uuid_for(session_id)
  /\ LET session_hash == generate_session_hash(session_id, uuid_drawn', clock')
         rows == trend_rows(conversations, TRUE, session_hash, day_count, clock')
     IN  store_result' =
           [op |-> "get_user_trends", session_id |-> session_id, now |-> clock',
            session_hash |-> session_hash, selected |-> rows,
            returned |-> trend_summary(rows)]
  /\ UNCHANGED readUnchanged

\* get_aggregated_analytics(days)
GetAggregatedAnalytics(elapsed, day_count) ==
  /\ store_calls < MaxCalls
  /\ store_calls' = store_calls + 1
  /\ clock' = clock + elapsed
  /\ LET rows == trend_rows(conversations, FALSE, <<>>, day_count, clock')
     IN  store_result' =
           [op |-> "get_aggregated_analytics", now |-> clock', selected |-> rows,
            returned |-> trend_summary(rows)]
  /\ UNCHANGED <<uuid_drawn, readUnchanged>>

\* get_privacy_report()
GetPrivacyReport(elapsed) ==
  /\ store_calls < MaxCalls
  /\ store_calls' = store_calls + 1
  /\ clock' = clock + elapsed
  /\ store_result' =
       [op |-> "get_privacy_report", now |-> clock',
        returned |-> get_privacy_report(conversations, data_retention_days,
                                        anonymize_after_days, clock')]
  /\ UNCHANGED <<uuid_drawn, readUnchanged>>

ReadNext ==
  \/ \E e \in ElapsedTicks, d \in StoreData, id \in SessionIds :
       StoreConversationData(e, d, id)
  \/ \E e \in ElapsedTicks, id \in SessionIds : StoreConversationDataFault(e, id)
  \/ \E e \in ElapsedTicks, id \in SessionIds : StoreWellnessActivity(e, id)
  \/ \E e \in ElapsedTicks : CleanupOldData(e, "none")
  \/ \E e \in ElapsedTicks, id \in SessionIds : ExportUserData(e, id)
  \/ \E e \in ElapsedTicks, id \in SessionIds, n \in TrendDays : GetUserTrends(e, id, n)
  \/ \E e \in ElapsedTicks, n \in TrendDays : GetAggregatedAnalytics(e, n)
  \/ \E e \in ElapsedTicks : GetPrivacyReport(e)

SpecRead == Init /\ [][ReadNext]_vars

------------------------------------------------------------------------------
(* store_conversation_data and cleanup_old_data running at the same time,   *)
(* each on its own sqlite3 connection to the same database file.  A         *)
(* connection begins its transaction with its first INSERT, DELETE or       *)
(* UPDATE, which takes the database's write lock; it keeps its changes to   *)
(* itself until its commit, which releases the lock.  A statement that      *)
(* finds the lock taken waits, and raises "database is locked" when the     *)
(* connection's timeout passes.                                             *)

\* DELETE FROM conversations WHERE timestamp < cutoff_date: the rows left
rows_after_delete(convs, cutoff_date) ==
  SelectSeq(convs, LAMBDA r : ~(r.timestamp < cutoff_date))

\* UPDATE conversations SET encrypted_content = NULL WHERE timestamp <
\* anonymize_date AND encrypted_content IS NOT NULL: the rows it changes
rows_to_update(convs, anonymize_date) ==
  {i \in 1..Len(convs) :
     convs[i].timestamp < anonymize_date /\ convs[i].encrypted_content # <<>>}

rows_after_update(convs, anonymize_date) ==
  [i \in 1..Len(convs) |->
     IF i \in rows_to_update(convs, anonymize_date)
     THEN [convs[i] EXCEPT !.encrypted_content = <<>>]
     ELSE convs[i]]

connUnchanged == <<data_retention_days, anonymize_after_days, wellness_activities,
                   store_result, stressVars, burnoutVars, urgencyVars, profileVars,
                   loopVars, sentimentVars, keyVars>>

\* data_handler.py:121-133, 145  the call computes the session hash, reads the
\* clock for the timestamp and encrypts: the row is ready
StoreBegin(elapsed, data, session_id) ==
  /\ store_conn.pc = "idle"
  /\ store_calls < MaxCalls
  /\ store_calls' = store_calls + 1
  /\ clock' = clock + elapsed
  /\ uuid_drawn' = uuid_for(session_id)
  /\ store_conn' = [pc  |-> "insert",
                    row |-> conversation_row(data, session_id, uuid_drawn', clock')]
  /\ UNCHANGED <<conversations, log, reserved_lock, sweep_conn, acknowledged,
                 connUnchanged>>

\* data_handler.py:135-152  the INSERT begins the transaction
StoreInsert ==
  /\ store_conn.pc = "insert"
  /\ reserved_lock = "none"
  /\ reserved_lock' = "store"
  /\ store_conn' = [store_conn EXCEPT !.pc = "commit"]
  /\ UNCHANGED <<conversations, log, clock, uuid_drawn, store_calls, sweep_conn,
                 acknowledged, connUnchanged>>

\* data_handler.py:138, 158-160  the INSERT found the lock taken for too long:
\* the error is logged and False returned
StoreBusy ==
  /\ store_conn.pc = "insert"
  /\ reserved_lock # "none"
  /\ store_conn' = [pc |-> "idle", row |-> store_conn.row, returned |-> FALSE]
  /\ log' = Append(log, [level |-> "ERROR", event |-> "Error storing conversation data"])
  /\ UNCHANGED <<conversations, reserved_lock, clock, uuid_drawn, store_calls,
                 sweep_conn, acknowledged, connUnchanged>>

\* data_handler.py:154-156  commit, log, return True
StoreCommit ==
  /\ store_conn.pc = "commit"
  /\ conversations' = Append(conversations, store_conn.row)
  /\ reserved_lock' = "none"
  /\ acknowledged' = acknowledged \cup {store_conn.row}
  /\ store_conn' = [pc |-> "idle", row |-> store_conn.row, returned |-> TRUE]
  /\ log' = Append(log, [level |-> "INFO", event |-> "Conversation data stored",
                         session |-> <<"first 8 of", store_conn.row.session_hash>>])
  /\ UNCHANGED <<clock, uuid_drawn, store_calls, sweep_conn, connUnchanged>>

\* data_handler.py:308-309  the two cutoffs, from the clock
SweepBegin(elapsed) ==
  /\ sweep_conn.pc = "idle"
  /\ store_calls < MaxCalls
  /\ store_calls' = store_calls + 1
  /\ clock' = clock + elapsed
  /\ sweep_conn' = [pc |-> "delete", now |-> clock',
                    cutoff_date    |-> clock' - days(data_retention_days),
                    anonymize_date |-> clock' - days(anonymize_after_days)]
  /\ UNCHANGED <<conversations, log, uuid_drawn, reserved_lock, store_conn,
                 acknowledged, connUnchanged>>

\* the DELETE issued on a connection in autocommit mode: it is committed on
\* its own
SweepDelete_autocommit ==
  /\ sweep_conn.pc = "delete"
  /\ reserved_lock = "none"
  /\ conversations' = rows_after_delete(conversations, sweep_conn.cutoff_date)
  /\ sweep_conn' =
       [sweep_conn EXCEPT !.pc = "update"]
         @@ [work    |-> conversations',
             deleted |-> Len(conversations) - Len(conversations')]
  /\ UNCHANGED <<reserved_lock, log, clock, uuid_drawn, store_calls, store_conn,
                 acknowledged, connUnchanged>>

\* data_handler.py:311-318  the DELETE begins the transaction; the rows are
\* deleted in the connection's own view of the table
SweepDelete ==
  /\ sweep_conn.pc = "delete"
  /\ reserved_lock = "none"
  /\ reserved_lock' = "sweep"
  /\ LET kept == rows_after_delete(conversations, sweep_conn.cutoff_date)
     IN  sweep_conn' =
           [sweep_conn EXCEPT !.pc = "update"]
             @@ [work |-> kept, deleted |-> Len(conversations) - Len(kept)]
  /\ UNCHANGED <<conversations, log, clock, uuid_drawn, store_calls, store_conn,
                 acknowledged, connUnchanged>>

\* data_handler.py:320-326  the UPDATE, in the same transaction
SweepUpdate ==
  /\ sweep_conn.pc = "update"
  /\ sweep_conn' =
       [sweep_conn EXCEPT
          !.pc = "commit",
          !.work = rows_after_update(sweep_conn.work, sweep_conn.anonymize_date)]
         @@ [anonymized |->
               Cardinality(rows_to_update(sweep_conn.work, sweep_conn.anonymize_date))]
  /\ UNCHANGED <<conversations, log, reserved_lock, clock, uuid_drawn, store_calls,
                 store_conn, acknowledged, connUnchanged>>

\* data_handler.py:311, 338-340  the DELETE found the lock taken for too long,
\* or the UPDATE or the commit raised: the transaction is rolled back, the
\* error logged and returned
SweepFault ==
  /\ \/ sweep_conn.pc = "delete" /\ reserved_lock # "none"
     \/ sweep_conn.pc \in {"update", "commit"}
  /\ reserved_lock' = IF sweep_conn.pc = "delete" THEN reserved_lock ELSE "none"
  /\ sweep_conn' = [pc |-> "idle", now |-> sweep_conn.now,
                    returned |-> [error |-> "exception"]]
  /\ log' = Append(log, [level |-> "ERROR", event |-> "Error during data cleanup"])
  /\ UNCHANGED <<conversations, clock, uuid_drawn, store_calls, store_conn,
                 acknowledged, connUnchanged>>

\* data_handler.py:328-336  commit, log, return the counts
SweepCommit ==
  /\ sweep_conn.pc = "commit"
  /\ conversations' = sweep_conn.work
  /\ reserved_lock' = "none"
  /\ sweep_conn' = [pc |-> "idle", now |-> sweep_conn.now,
                    cutoff_date |-> sweep_conn.cutoff_date,
                    returned |-> [deleted_conversations    |-> sweep_conn.deleted,
                                  anonymized_conversations |-> sweep_conn.anonymized,
                                  status                   |-> "success"]]
  /\ log' = Append(log, [level |-> "INFO", event |-> "Cleanup completed",
                         deleted |-> sweep_conn.deleted,
                         anonymized |-> sweep_conn.anonymized])
  /\ UNCHANGED <<clock, uuid_drawn, store_calls, store_conn, acknowledged,
                 connUnchanged>>

ConcurrentNext ==
  \/ \E e \in ElapsedTicks, d \in StoreData, id \in SessionIds : StoreBegin(e, d, id)
  \/ StoreInsert
  \/ StoreBusy
  \/ StoreCommit
  \/ \E e \in ElapsedTicks : SweepBegin(e)
  \/ SweepDelete
  \/ SweepUpdate
  \/ SweepFault
  \/ SweepCommit

SpecConcurrent == Init /\ [][ConcurrentNext]_vars

------------------------------------------------------------------------------
(* DataHandler objects constructed at the same time: each runs               *)
(* _get_or_create_encryption_key on the same key file.  A key is the number *)
(* of the Fernet.generate_key() call that produced it; 0 is the content of  *)
(* a file that was opened for writing and not written yet.                  *)

EmptyFile == 0

keyUnchanged == <<stressVars, burnoutVars, urgencyVars, profileVars, chatVars,
                  sentimentVars, storeVars, connectionVars>>

\* data_handler.py:31  os.path.exists(key_file)
KeyFileExists(h) ==
  /\ handlers[h].pc = "start"
  /\ handlers' = [handlers EXCEPT
                    ![h] = [pc |-> IF key_file.exists THEN "read" ELSE "generate"]]
  /\ UNCHANGED <<key_file, keys_generated, keyUnchanged>>

\* data_handler.py:32-33, 17-18  the file is read and its content becomes the
\* handler's key; Fernet raises on a content that is no key
ReadKey(h) ==
  /\ handlers[h].pc = "read"
  /\ handlers' = [handlers EXCEPT
                    ![h] = IF key_file.content = EmptyFile
                           THEN [pc |-> "failed", key |-> key_file.content]
                           ELSE [pc |-> "done", key |-> key_file.content]]
  /\ UNCHANGED <<key_file, keys_generated, keyUnchanged>>

\* data_handler.py:35  Fernet.generate_key()
GenerateKey(h) ==
  /\ handlers[h].pc = "generate"
  /\ keys_generated' = keys_generated + 1
  /\ handlers' = [handlers EXCEPT ![h] = [pc |-> "open", key |-> keys_generated']]
  /\ UNCHANGED <<key_file, keyUnchanged>>

\* data_handler.py:36  open(key_file, 'wb') creates the file or empties it
OpenKeyFile(h) ==
  /\ handlers[h].pc = "open"
  /\ key_file' = [exists |-> TRUE, content |-> EmptyFile]
  /\ handlers' = [handlers EXCEPT ![h].pc = "write"]
  /\ UNCHANGED <<keys_generated, keyUnchanged>>

\* data_handler.py:37-38, 17-18  the key is written, the file closed, and the
\* key becomes the handler's key
WriteKey(h) ==
  /\ handlers[h].pc = "write"
  /\ key_file' = [exists |-> TRUE, content |-> handlers[h].key]
  /\ handlers' = [handlers EXCEPT ![h].pc = "done"]
  /\ UNCHANGED <<keys_generated, keyUnchanged>>

KeyNext ==
  \E h \in Handlers :
    \/ KeyFileExists(h)
    \/ ReadKey(h)
    \/ GenerateKey(h)
    \/ OpenKeyFile(h)
    \/ WriteKey(h)

SpecKey == Init /\ [][KeyNext]_vars

-----------------------------------------------------------------------------
(* Spec: the chat loop of main(), one user message after another           *)

MaxTurns == 2

\* what VADER (compound) and TextBlob (polarity) may answer, in tenths
PolarityPairs == {<<-10, -10>>, <<0, 0>>}

user_turns == Cardinality({i \in 1..Len(messages) : messages[i].role = "user"})

\* app.py:473-475  the user submits a message
Submit(input) ==
  /\ pc = "idle"
  /\ user_turns < MaxTurns
  /\ user_input' = input
  /\ messages' = Append(messages, [role |-> "user", content |-> input])
  /\ main_analysis' = NoCall
  /\ reply' = NoCall
  /\ turn_events' = <<>>
  /\ pc' = "analyze"
  /\ UNCHANGED <<gpt_calls, conversations, log, polarity, uuid_drawn,
                 stressVars, burnoutVars, urgencyVars, profileVars,
                 sentimentVars, storeVars, processVars>>

\* app.py:479  analyze_message(user_input) when no step raises; the libraries
\* answer each cleaned text as they answered it before
AnalyzeMessage ==
  /\ pc = "analyze"
  /\ \E answers \in [library_inputs(user_input, messages) \ DOMAIN polarity
                       -> PolarityPairs] :
       /\ polarity' = polarity @@ answers
       /\ main_analysis' = analysis_of(user_input, messages, polarity', user_turns)
  /\ user_profile' = update_user_profile(user_profile, main_analysis', user_turns)
  /\ indicator_arrivals' =
       indicator_arrivals \o get(main_analysis', "stress_indicators", <<>>)
  /\ turn_events' = Append(turn_events, "analysed")
  /\ pc' = "respond"
  /\ UNCHANGED <<user_input, messages, reply, gpt_calls, conversations, log,
                 uuid_drawn, stressVars, burnoutVars, urgencyVars,
                 sentimentVars, storeVars, processVars>>

\* app.py:479  analyze_message(user_input) when the sentiment libraries raise:
\* the except branch logs the error and returns {'error': ...}
AnalyzeMessageFault ==
  /\ pc = "analyze"
  /\ library_inputs(user_input, messages) # {}
  /\ main_analysis' = analysis_error
  /\ log' = Append(log, [level |-> "ERROR", event |-> "Error analyzing message"])
  /\ turn_events' = Append(turn_events, "analysis_failed")
  /\ pc' = "respond"
  /\ UNCHANGED <<user_input, messages, reply, gpt_calls, conversations,
                 polarity, uuid_drawn, stressVars, burnoutVars, urgencyVars,
                 profileVars, sentimentVars, storeVars, processVars>>

\* app.py:482-485  generate_response, then the response joins the messages
Respond ==
  /\ pc = "respond"
  /\ \E choice \in 1..de_escalation_pool :
       reply' = generate_response(user_input, main_analysis, choice)
  /\ gpt_calls' = IF reply'.gpt_invoked THEN gpt_calls + 1 ELSE gpt_calls
  /\ log' = IF reply'.crisis_handler
            THEN Append(log, [level |-> "WARNING", event |-> "Crisis level detected",
                              crisis_level |->
                                assess_crisis_level(user_input, main_analysis),
                              at |-> user_turns])
            ELSE log
  /\ turn_events' =
       turn_events
         \o (IF reply'.gpt_invoked THEN <<"gpt_invoked">> ELSE <<>>)
         \o (IF reply'.crisis_handler THEN <<"crisis_handler">> ELSE <<>>)
         \o <<"response_added">>
  /\ messages' = Append(messages, [role |-> "assistant",
                                   content |-> reply'.response])
  /\ pc' = "store"
  /\ UNCHANGED <<user_input, main_analysis, conversations, polarity, uuid_drawn,
                 stressVars, burnoutVars, urgencyVars, profileVars,
                 sentimentVars, storeVars, processVars>>

\* app.py:488-493  store_conversation_data inserts the row and returns True
StoreConversation ==
  /\ pc = "store"
  /\ uuid_drawn' = uuid_drawn + 1
  /\ conversations' =
       Append(conversations,
              conversation_row(conversation_data(main_analysis, user_profile, user_turns),
                               "", uuid_drawn', user_turns))
  /\ log' = Append(log, [level |-> "INFO", event |-> "Conversation data stored",
                         session |-> <<"first 8 of",
                                       generate_session_hash("", uuid_drawn', user_turns)>>])
  /\ turn_events' = Append(turn_events, "stored")
  /\ pc' = "alert"
  /\ UNCHANGED <<user_input, messages, main_analysis, reply, gpt_calls, polarity,
                 stressVars, burnoutVars, urgencyVars, profileVars,
                 sentimentVars, storeVars, processVars>>

\* store_conversation_data without its except branch: the database error
\* leaves main, and the script run ends where it was raised
StoreConversationFault_raises ==
  /\ pc = "store"
  /\ uuid_drawn' = uuid_drawn + 1
  /\ log' = log
  /\ turn_events' = Append(turn_events, "store_failed")
  /\ pc' = "idle"
  /\ UNCHANGED <<user_input, messages, main_analysis, reply, gpt_calls,
                 conversations, polarity, stressVars, burnoutVars, urgencyVars,
                 profileVars, sentimentVars, storeVars, processVars>>

\* app.py:488-493  store_conversation_data raises inside (database error): it
\* logs the error and returns False, which main does not look at
StoreConversationFault ==
  /\ pc = "store"
  /\ uuid_drawn' = uuid_drawn + 1
  /\ log' = Append(log, [level |-> "ERROR", event |-> "Error storing conversation data"])
  /\ turn_events' = Append(turn_events, "store_failed")
  /\ pc' = "alert"
  /\ UNCHANGED <<user_input, messages, main_analysis, reply, gpt_calls,
                 conversations, polarity, stressVars, burnoutVars, urgencyVars,
                 profileVars, sentimentVars, storeVars, processVars>>

\* app.py:496-507  the emergency alert if the urgency is emergency, then rerun
AlertAndRerun ==
  /\ pc = "alert"
  /\ turn_events' =
       IF get(main_analysis, "urgency_level", "None") = "emergency"
       THEN Append(turn_events, "emergency_alert")
       ELSE turn_events
  /\ pc' = "idle"
  /\ UNCHANGED <<user_input, messages, main_analysis, reply, gpt_calls,
                 conversations, log, polarity, uuid_drawn, stressVars,
                 burnoutVars, urgencyVars, profileVars,
                 sentimentVars, storeVars, processVars>>

Next ==
  \/ \E i \in 1..Len(ChatInputs) : Submit(ChatInputs[i])
  \/ AnalyzeMessage
  \/ AnalyzeMessageFault
  \/ Respond
  \/ StoreConversation
  \/ StoreConversationFault
  \/ AlertAndRerun

Spec == Init /\ [][Next]_vars

-----------------------------------------------------------------------------
(* Claims about the stress detector                                        *)

\* C6: assess_stress_level maps (signals, crisisSignals, copingSignals) to a
\* level highest-severity-first: critical if a crisis signal is present or
\* score >= 8, else high if score >= 5, else moderate if score >= 3, else mild
\* if score >= 1, else low; one crisis marker forces critical for every number
\* of coping and stress signals.
C6_StressLevelHighestSeverityFirst ==
  assessment # NoCall =>
    LET crisis   == Len(assessment.crisis_signals)
        score_x2 == 2 * Len(assessment.stress_signals) + 6 * crisis
                      - Len(assessment.coping_signals)
        level    == assessment.stress_level
    IN  /\ level \in {"critical", "high", "moderate", "mild", "low"}
        /\ (level = "critical") = (crisis >= 1 \/ score_x2 >= 16)
        /\ (level = "high")     = (crisis = 0 /\ score_x2 >= 10 /\ score_x2 < 16)
        /\ (level = "moderate") = (crisis = 0 /\ score_x2 >= 6 /\ score_x2 < 10)
        /\ (level = "mild")     = (crisis = 0 /\ score_x2 >= 2 /\ score_x2 < 6)
        /\ (level = "low")      = (crisis = 0 /\ score_x2 < 2)

\* a text with one crisis marker, a coping marker and a score below 3 was
\* assessed critical
C6_Witness ==
  /\ assessment # NoCall
  /\ Len(assessment.crisis_signals) = 1
  /\ Len(assessment.coping_signals) >= 1
  /\ assessment.stress_score_x2 < 6
  /\ assessment.stress_level = "critical"

C7_ScoreFormula ==
  assessment # NoCall =>
    assessment.stress_score_x2 =
      2 * Len(assessment.stress_signals) + 6 * Len(assessment.crisis_signals)
        - Len(assessment.coping_signals)

C7_ScoreMonotoneStep ==
  (/\ assessment # NoCall
   /\ assessment' # NoCall
   /\ assessment'.stress_signals = assessment.stress_signals
   /\ assessment'.coping_signals = assessment.coping_signals
   /\ Len(assessment'.crisis_signals) >= Len(assessment.crisis_signals))
  => assessment'.stress_score_x2 >= assessment.stress_score_x2

\* C7: the stress score equals |signals| + 3*|crisisSignals| - 0.5*|copingSignals|
\* (here in halves), and from one assessment to the next it does not decrease
\* when the stress and coping signals are the same and the number of matched
\* crisis categories is the same or larger.
C7_ScoreFormulaAndMonotone ==
  [] C7_ScoreFormula /\ [][C7_ScoreMonotoneStep]_vars

\* a text that matches two crisis categories and nothing else was assessed
C7_Witness ==
  /\ assessment # NoCall
  /\ Len(assessment.crisis_signals) = 2
  /\ assessment.stress_signals = <<>>
  /\ assessment.coping_signals = <<>>
  /\ assessment.stress_score_x2 = 12

\* the messages of the history that match some stress-domain pattern, among
\* its last ten
C8_RecentStressMentions ==
  {i \in 1..Len(conversation_history) :
     /\ i > Len(conversation_history) - 10
     /\ mentions_stress(conversation_history[i])}

\* C8: analyze_burnout_risk returns high if at least 3 of the four burnout
\* markers match or the chronic-stress flag is set, moderate if exactly 2
\* match, mild if exactly 1 matches, else low; the flag is set iff at least 5
\* of the last 10 history turns (no older turn counts) match a stress-domain
\* pattern, and is unset when no history is given.
C8_BurnoutRiskLevels ==
  burnout # NoCall =>
    LET r       == burnout.result
        markers == Len(r.burnout_indicators)
        chronic == r.chronic_stress_detected
        level   == r.burnout_risk
    IN  /\ {r.burnout_indicators[i] : i \in 1..markers}
             \subseteq {"exhaustion", "cynicism", "inefficacy", "detachment"}
        /\ chronic = (burnout.history_given
                        /\ Cardinality(C8_RecentStressMentions) >= 5)
        /\ (level = "high")     = (markers >= 3 \/ chronic)
        /\ (level = "moderate") = (markers = 2 /\ ~chronic)
        /\ (level = "mild")     = (markers = 1 /\ ~chronic)
        /\ (level = "low")      = (markers = 0 /\ ~chronic)

\* a history of 11 turns of which 5 mention stress, the oldest among them, was
\* analysed: only 4 of the last 10 count and the flag is unset
C8_Witness ==
  /\ burnout # NoCall
  /\ burnout.history_given
  /\ Len(conversation_history) = 11
  /\ mentions_stress(conversation_history[1])
  /\ Cardinality({i \in 1..11 : mentions_stress(conversation_history[i])}) = 5
  /\ ~burnout.result.chronic_stress_detected
  /\ burnout.result.burnout_risk = "moderate"

-----------------------------------------------------------------------------
(* Claims about assess_urgency                                             *)

\* the lower-cased message of the last call contains an emergency keyword
EmergencyPhraseInCall ==
  \E k \in 1..Len(emergency_keywords) :
    contains(lower(urgency_call.message), emergency_keywords[k])

\* the lower-cased message of the last call contains a high-intensity phrase
DistressPhraseInCall ==
  \E k \in 1..Len(high_stress_indicators) :
    contains(lower(urgency_call.message), high_stress_indicators[k])

\* C1: assess_urgency returns exactly one level of the ordered enumeration
\* none < low < medium < high < emergency, and a message whose lower-cased
\* text contains an emergency keyword gets emergency, whatever the compound
\* value and the number of stress signals are.
C1_EmergencyPhraseWins ==
  urgency_call # NoCall =>
    /\ urgency_call.result \in {"none", "low", "medium", "high", "emergency"}
    /\ EmergencyPhraseInCall => urgency_call.result = "emergency"

\* a message with an emergency keyword in capitals, the most positive
\* sentiment and no stress signal was classified emergency
C1_Witness ==
  /\ urgency_call # NoCall
  /\ EmergencyPhraseInCall
  /\ ~ any_in(emergency_keywords, urgency_call.message)
  /\ urgency_call.sentiment.compound = r_int(1)
  /\ urgency_call.stress_indicators = <<>>
  /\ urgency_call.result = "emergency"

\* C5: assess_urgency is a strict first-match decision list: with no emergency
\* keyword, a high-intensity distress phrase gives high; otherwise
\* compound < -0.7 or at least 3 stress signals gives high; otherwise
\* compound < -0.3 or at least 1 stress signal gives medium; otherwise low.
C5_FirstMatchDecisionList ==
  (urgency_call # NoCall /\ ~EmergencyPhraseInCall) =>
    LET c == urgency_call.sentiment.compound
        n == Len(urgency_call.stress_indicators)
        strong == r_less(c, rat(-7, 10)) \/ n >= 3
        weak   == r_less(c, rat(-3, 10)) \/ n >= 1
        level  == urgency_call.result
    IN  /\ DistressPhraseInCall => level = "high"
        /\ (~DistressPhraseInCall /\ strong) => level = "high"
        /\ (~DistressPhraseInCall /\ ~strong /\ weak) => level = "medium"
        /\ (~DistressPhraseInCall /\ ~strong /\ ~weak) => level = "low"

\* a message without any listed phrase, with compound below -0.7 and one
\* stress signal (both the high and the medium rule match), was classified high
C5_Witness ==
  /\ urgency_call # NoCall
  /\ ~EmergencyPhraseInCall
  /\ ~DistressPhraseInCall
  /\ r_less(urgency_call.sentiment.compound, rat(-7, 10))
  /\ Len(urgency_call.stress_indicators) = 1
  /\ urgency_call.result = "high"

-----------------------------------------------------------------------------
(* Claims about the user profile                                           *)

\* C9: after any sequence of update_user_profile calls from the initial
\* profile, stress_level lies in [0, 10], for every compound value supplied,
\* also outside [-1, 1].
C9_StressLevelInRange ==
  /\ r_leq(r_int(0), user_profile.stress_level)
  /\ r_leq(user_profile.stress_level, r_int(10))

\* the level is above 7.5, which only compound values below -1 can cause
C9_Witness ==
  /\ user_profile.conversation_count >= 2
  /\ r_less(rat(75, 10), user_profile.stress_level)

\* C10: after any sequence of update_user_profile calls, anxiety_indicators
\* holds at most 10 entries in arrival order: all the entries ever appended
\* while they are at most 10, and after that exactly the 10 appended last.
C10_RecentIndicatorsFifo ==
  LET kept    == user_profile.anxiety_indicators
      arrived == Len(indicator_arrivals)
  IN  /\ Len(kept) <= 10
      /\ Len(kept) = (IF arrived > 10 THEN 10 ELSE arrived)
      /\ \A i \in 1..Len(kept) :
           kept[i] = indicator_arrivals[arrived - Len(kept) + i]

\* more than 10 indicators were appended and the list holds 10
C10_Witness ==
  /\ Len(indicator_arrivals) > 10
  /\ Len(user_profile.anxiety_indicators) = 10
  /\ user_profile.anxiety_indicators[1] # indicator_arrivals[1]

-----------------------------------------------------------------------------
(* Claims about the chat loop                                               *)

\* the message of the turn has been answered
Answered == pc \in {"store", "alert"}

\* the urgency that analyze_message classified for the turn, if it did
ClassifiedEmergency ==
  /\ "urgency_level" \in DOMAIN main_analysis
  /\ main_analysis.urgency_level = "emergency"

\* the response that joined the messages for the turn
LastResponse == messages[Len(messages)].content

\* everything EmergencyHandler.handle_crisis can return
EmergencyHandlerPayloads ==
  {handle_emergency_crisis, handle_high_crisis, handle_low_crisis,
   handle_general_support}
    \cup {handle_moderate_crisis(c) : c \in 1..de_escalation_pool}

CompanionResponses ==
  Cardinality({i \in 1..Len(messages) :
                 /\ messages[i].role = "assistant"
                 /\ messages[i].content = [payload |-> "gpt"]})

\* C2: on a turn whose analysis carries urgency 'emergency',
\* gpt_health_companion_response is not invoked and the response is what
\* EmergencyHandler.handle_crisis returned; the companion is invoked only on
\* turns whose urgency is not 'emergency' (so it was invoked exactly once for
\* every companion response among the messages).
C2_EmergencyNeverReachesCompanion ==
  /\ (Answered /\ ClassifiedEmergency) =>
       /\ ~reply.gpt_invoked
       /\ "gpt_invoked" \notin {turn_events[i] : i \in 1..Len(turn_events)}
       /\ LastResponse \in EmergencyHandlerPayloads
  /\ (Answered /\ reply.gpt_invoked) => ~ClassifiedEmergency
  /\ gpt_calls = CompanionResponses

\* an emergency turn answered by the handler after a turn the companion answered
C2_Witness ==
  /\ Answered
  /\ ClassifiedEmergency
  /\ gpt_calls = 1
  /\ LastResponse \in EmergencyHandlerPayloads

\* C3: for every message that assess_urgency classifies 'emergency', the
\* response is the emergency-state payload, which lists a 24/7 crisis line.
C3_EmergencyUrgencyGetsEmergencyPayload ==
  (Answered /\ ClassifiedEmergency) =>
    /\ LastResponse = handle_emergency_crisis
    /\ LastResponse.crisis_line_24_7

\* C4: when a scoring step raised inside analyze_message, the urgency that
\* generate_response acted on and the urgency_level of the row stored for the
\* turn are not 'low'.
C4_FaultNeverLow ==
  "error" \in DOMAIN main_analysis =>
    /\ Answered => reply.urgency # "low"
    /\ (pc = "alert" /\ turn_events[Len(turn_events)] = "stored") =>
         conversations[Len(conversations)].urgency_level # "low"

-----------------------------------------------------------------------------
(* Claims about the sentiment analyzer                                      *)

\* C11: for every text, with VADER's compound and TextBlob's polarity in
\* [-1, 1], the compound score that analyze returns lies in [-1, 1], also when
\* an intensity modifier precedes a matched keyword.
C11_CompoundInUnitRange ==
  sentiment_call # NoCall =>
    /\ r_leq(r_int(-1), sentiment_call.result.compound)
    /\ r_leq(sentiment_call.result.compound, r_int(1))

-----------------------------------------------------------------------------
(* Claims about scoring in the chat loop                                    *)

\* what analyze_message returns for user_input as the first message of a new
\* session, with the same tables and the same libraries
FreshSessionAnalysis ==
  analysis_of(user_input, <<[role |-> "user", content |-> user_input]>>,
              polarity, 0)

\* C12: the compound score and the urgency level that analyze_message returns
\* for a message are those it returns for the same text in a new session,
\* whatever messages were analysed before and whatever the profile holds; so
\* any two runs that analyse the same text agree on both.
C12_ScoreDependsOnTextAlone ==
  (pc = "respond" /\ "sentiment" \in DOMAIN main_analysis) =>
    /\ main_analysis.sentiment.compound = FreshSessionAnalysis.sentiment.compound
    /\ main_analysis.urgency_level = FreshSessionAnalysis.urgency_level

\* a message analysed after an earlier one, while the mood trend is declining
\* and the profile has already been updated twice
C12_Witness ==
  /\ pc = "respond"
  /\ "sentiment" \in DOMAIN main_analysis
  /\ Len(messages) >= 3
  /\ main_analysis.context.mood_trend = "declining"
  /\ user_profile.conversation_count >= 2

-----------------------------------------------------------------------------
(* Claims about the data store                                              *)

\* the last DataHandler call was `op`
LastCall(op) == "op" \in DOMAIN store_result /\ store_result.op = op

\* cleanup_old_data has just returned its success dict
SweepSucceeded ==
  LastCall("cleanup_old_data") /\ "status" \in DOMAIN store_result.returned

StoredRows == {conversations[i] : i \in 1..Len(conversations)}

StoredActivities == {wellness_activities[i] : i \in 1..Len(wellness_activities)}

\* the record is older than `age` days when the sweep has just run
OlderThan(r, age) == r.timestamp < clock - days(age)

\* C13: after a successful cleanup_old_data no conversation record older than
\* the retention age remains, every remaining record older than the
\* anonymize-after age has a NULL encrypted_content, and with retention age 0
\* no record stored before the sweep remains.
C13_SweepLeavesNoAgedRecord ==
  SweepSucceeded =>
    /\ \A r \in StoredRows :
         /\ ~OlderThan(r, data_retention_days)
         /\ OlderThan(r, anonymize_after_days) => r.encrypted_content = <<>>
    /\ data_retention_days = 0 => conversations = <<>>

\* a sweep that deleted one record and cleared the content of another
C13_Witness ==
  /\ SweepSucceeded
  /\ store_result.returned.deleted_conversations = 1
  /\ store_result.returned.anonymized_conversations = 1
  /\ Len(conversations) = 1

\* no record passes the retention or the anonymize-after age between the last
\* clock reading and the next
NoRecordCrossesAnAge ==
  \A r \in StoredRows :
    /\ ~(~(r.timestamp < clock - days(data_retention_days))
           /\ r.timestamp < clock' - days(data_retention_days))
    /\ ~(~(r.timestamp < clock - days(anonymize_after_days))
           /\ r.timestamp < clock' - days(anonymize_after_days))

\* C14: a cleanup_old_data that follows a successful cleanup_old_data, with no
\* call in between and no record crossing an age in between, leaves the
\* conversations as they were and deletes 0 and anonymizes 0 records.
C14_SweepIdempotentStep ==
  (/\ SweepSucceeded
   /\ store_calls' = store_calls + 1
   /\ SweepSucceeded'
   /\ NoRecordCrossesAnAge) =>
     /\ conversations' = conversations
     /\ store_result'.returned.deleted_conversations = 0
     /\ store_result'.returned.anonymized_conversations = 0

C14_SweepIdempotent == [][C14_SweepIdempotentStep]_vars

\* two sweeps in a row, the first clearing a record's content, the second
\* finding that record again and changing nothing
C14_Witness ==
  /\ SweepSucceeded
  /\ Len(log) >= 2
  /\ log[Len(log) - 1].event = "Cleanup completed"
  /\ log[Len(log) - 1].anonymized = 1
  /\ log[Len(log)].event = "Cleanup completed"
  /\ log[Len(log)].anonymized = 0
  /\ log[Len(log)].deleted = 0
  /\ \E r \in StoredRows : OlderThan(r, anonymize_after_days)

\* C15: a successful sweep leaves no raw conversation content older than the
\* anonymize-after age of its data category (conversation_content) and no
\* such record older than that category's retention age.
C15_SweepEnforcesCategoryPolicy ==
  SweepSucceeded =>
    \A r \in StoredRows :
      /\ OlderThan(r, data_categories.conversation_content.anonymization_after_days)
           => r.encrypted_content = <<>>
      /\ r.encrypted_content # <<>>
           => ~OlderThan(r, data_categories.conversation_content.retention_days)

\* C16: no sweep runs while the anonymize-after age exceeds the retention age.
C16_NoSweepWithInvalidRetention ==
  LastCall("cleanup_old_data") => anonymize_after_days <= data_retention_days

\* the last call computed the session hash of a given (non-empty) identifier
HashedIdentifier ==
  /\ "session_hash" \in DOMAIN store_result
  /\ store_result.session_id # ""

\* the hash of the last call against the hash of the same identifier at every
\* moment so far: the same on the same calendar date, another on another date
C17_HashFollowsDate ==
  HashedIdentifier =>
    \A t \in 0..clock :
      (generate_session_hash(store_result.session_id, uuid_drawn, t)
         = store_result.session_hash)
        <=> (strftime_date(t) = strftime_date(store_result.now))

\* two calls in a row with the same identifier
C17_HashOfNextCall ==
  (/\ HashedIdentifier
   /\ store_calls' = store_calls + 1
   /\ HashedIdentifier'
   /\ store_result'.session_id = store_result.session_id) =>
     ((store_result'.session_hash = store_result.session_hash)
        <=> (strftime_date(clock') = strftime_date(clock)))

\* C17: _generate_session_hash with the same non-empty identifier returns the
\* same hash whenever it is called on the same calendar date and a different
\* hash when called on a different date.
C17_SessionHashSameDateOnly ==
  [] C17_HashFollowsDate /\ [][C17_HashOfNextCall]_vars

\* three records stored for one identifier: the first on one date, the next
\* two at different times of a later date
C17_Witness ==
  /\ HashedIdentifier
  /\ Len(conversations) = 3
  /\ conversations[1].session_hash # conversations[2].session_hash
  /\ conversations[2].session_hash = store_result.session_hash
  /\ conversations[3].session_hash = store_result.session_hash
  /\ conversations[2].timestamp # conversations[3].timestamp
  /\ conversations[1].session_hash =
       generate_session_hash(store_result.session_id, uuid_drawn,
                             conversations[1].timestamp)

\* C18: the records that the chat loop stores for one conversation on one
\* calendar day carry the same session hash.
C18_OneHashPerSessionDay ==
  \A r1 \in StoredRows, r2 \in StoredRows :
    strftime_date(r1.timestamp) = strftime_date(r2.timestamp)
      => r1.session_hash = r2.session_hash

\* the hashes under which rows of the session `id` were stored so far
HashesOf(id) == {generate_session_hash(id, uuid_drawn, t) : t \in 0..clock}

\* C19: after delete_user_data(session_id) returned True, no conversation
\* record and no wellness activity stored for that session remains, whenever
\* it was stored.
C19_EraseRemovesEveryRow ==
  (LastCall("delete_user_data") /\ store_result.returned
     /\ store_result.session_id # "") =>
    /\ \A r \in StoredRows : r.session_hash \notin HashesOf(store_result.session_id)
    /\ \A a \in StoredActivities :
         a.session_hash \notin HashesOf(store_result.session_id)

\* a call of delete_user_data
DeleteStep ==
  /\ store_calls' = store_calls + 1
  /\ "op" \in DOMAIN store_result'
  /\ store_result'.op = "delete_user_data"

C20_AllOrNothingStep ==
  DeleteStep =>
    IF store_result'.returned
    THEN /\ \A i \in 1..Len(conversations') :
              conversations'[i].session_hash # store_result'.session_hash
         /\ \A i \in 1..Len(wellness_activities') :
              wellness_activities'[i].session_hash # store_result'.session_hash
    ELSE /\ conversations' = conversations
         /\ wellness_activities' = wellness_activities

\* C20: delete_user_data either removes every matching row of conversations
\* and of wellness_activities and returns True, or returns False and leaves
\* both tables as they were.
C20_EraseAllOrNothing == [][C20_AllOrNothingStep]_vars

\* delete_user_data has failed while both tables held rows of the session
C20_Witness ==
  /\ LastCall("delete_user_data")
  /\ ~store_result.returned
  /\ \E r \in StoredRows : r.session_hash = store_result.session_hash
  /\ \E a \in StoredActivities : a.session_hash = store_result.session_hash

\* the compound values of the analyses handed to update_user_profile
SuppliedCompounds ==
  {a.sentiment.compound : a \in {x \in ProfileAnalyses : "sentiment" \in DOMAIN x}}

\* a <= b, by the sign of the difference
r_at_most(a, b) == r_sub(b, a).num >= 0

\* the level moved from `old` to `new` by the rolling average towards the
\* target of `compound`
RollingAverageStep(old, new, compound) ==
  LET target == r_clamp(r_int(0), r_int(10), r_sub(r_int(5), r_mul(r_int(5), compound)))
  IN  new = r_add(r_mul(rat(7, 10), old), r_mul(rat(3, 10), target))

C27_StressStep ==
  LET old == user_profile.stress_level
      new == user_profile'.stress_level
  IN  /\ old # new =>
           \E c \in SuppliedCompounds : RollingAverageStep(old, new, c)
      /\ r_at_most(r_mul(rat(7, 10), old), new)
      /\ r_at_most(r_sub(new, old), r_int(3))
      /\ r_at_most(r_sub(old, new), r_int(3))

\* C27: stress_level changes only by new = 0.7 * old + 0.3 * target with
\* target = clamp(5 - 5 * compound, 0, 10); in one update it never falls below
\* 0.7 * old and never moves by more than 3 points in either direction.
C27_StressMovesByRollingAverage == [][C27_StressStep]_vars

\* the level rose by 3 points from 0 and then fell to 0.7 of that
C27_Witness ==
  /\ user_profile.conversation_count = 2
  /\ user_profile.stress_level = rat(21, 10)

------------------------------------------------------------------------------
(* Claims about what the data store keeps and gives out                     *)

\* the message contents handed to store_conversation_data
Plaintexts ==
  {d.message_content : d \in {x \in StoreData : "message_content" \in DOMAIN x}}

Ciphertexts == {encrypt(p) : p \in Plaintexts}

\* the columns that hold scores, labels and times, never content
ScoreColumns ==
  {"timestamp", "date", "sentiment_score", "stress_level", "urgency_level",
   "emotions", "activity_type", "effectiveness_rating"}

\* every entry of a returned list has score columns only
OnlyScoreColumns(entries) ==
  \A i \in 1..Len(entries) : DOMAIN entries[i] \subseteq ScoreColumns

\* C21: a stored conversation record holds the message content only as
\* ciphertext, NULL when none was provided; what export, trends, analytics and
\* the privacy report return has no content column, neither plaintext nor
\* ciphertext, and no log entry carries content
C21_ContentOnlyAsCiphertext ==
  /\ \A r \in StoredRows : r.encrypted_content \in Ciphertexts \cup {<<>>}
  /\ LastCall("export_user_data") =>
       /\ OnlyScoreColumns(store_result.returned.conversations)
       /\ OnlyScoreColumns(store_result.returned.wellness_activities)
       /\ DOMAIN store_result.returned =
            {"export_date", "session_id", "conversations", "wellness_activities",
             "summary"}
  /\ (LastCall("get_user_trends") \/ LastCall("get_aggregated_analytics")) =>
       /\ OnlyScoreColumns(store_result.selected)
       /\ DOMAIN store_result.returned \subseteq
            {"error", "data_points", "dates", "urgency_distribution"}
  /\ LastCall("get_privacy_report") =>
       /\ DOMAIN store_result.returned =
            {"total_conversations", "encrypted_records",
             "old_records_needing_cleanup", "data_retention_days",
             "anonymization_days", "privacy_compliant"}
       /\ \A k \in DOMAIN store_result.returned \ {"privacy_compliant"} :
            store_result.returned[k] \in Nat
       /\ store_result.returned.privacy_compliant \in BOOLEAN
  /\ \A i \in 1..Len(log) :
       /\ DOMAIN log[i] \subseteq {"level", "event", "session", "deleted", "anonymized"}
       /\ log[i].event \notin Plaintexts

\* a record stored with content, still encrypted, is exported together with
\* one that was stored without content
C21_Witness ==
  /\ LastCall("export_user_data")
  /\ Len(store_result.returned.conversations) = 2
  /\ \E r \in StoredRows :
       r.session_hash = store_result.session_hash /\ r.encrypted_content \in Ciphertexts
  /\ \E r \in StoredRows :
       r.session_hash = store_result.session_hash /\ r.encrypted_content = <<>>

------------------------------------------------------------------------------
(* Claims about the turn and its persistence                                *)

\* the turn's analysis carries urgency 'high' or 'emergency'
UrgentTurn ==
  /\ "urgency_level" \in DOMAIN main_analysis
  /\ main_analysis.urgency_level \in {"high", "emergency"}

\* the positions of the event in the turn
PositionsOf(event) == {i \in 1..Len(turn_events) : turn_events[i] = event}

\* C22: a record with urgency 'high' or 'emergency' is never silently dropped:
\* when its store failed, the turn does not end before the caller has followed
\* the failure by a retry that stored the record or by an escalation (the
\* emergency alert counted as one).
C22_UrgentRecordNeverDropped ==
  (pc = "idle" /\ UrgentTurn) =>
    \A i \in PositionsOf("store_failed") :
      \E j \in (i + 1)..Len(turn_events) :
        turn_events[j] \in {"stored", "emergency_alert"}

\* C23: persistence is attempted only after the analysis ran and the response
\* joined the messages; when the store failed, the response is still the last
\* message, and the turn of an emergency ends with the emergency alert shown.
C23_ResponseBeforePersistence ==
  /\ \A i \in PositionsOf("stored") \cup PositionsOf("store_failed") :
       /\ \E j \in 1..(i - 1) : turn_events[j] \in {"analysed", "analysis_failed"}
       /\ \E j \in 1..(i - 1) : turn_events[j] = "response_added"
       /\ messages[Len(messages)] = [role |-> "assistant", content |-> reply.response]
       /\ messages[Len(messages) - 1] = [role |-> "user", content |-> user_input]
  /\ pc = "store" => PositionsOf("response_added") # {}
  /\ (pc = "idle" /\ PositionsOf("store_failed") # {}) =>
       /\ PositionsOf("response_added") # {}
       /\ ClassifiedEmergency => PositionsOf("emergency_alert") # {}

\* an emergency turn whose store failed has ended with response and alert
C23_Witness ==
  /\ pc = "idle"
  /\ ClassifiedEmergency
  /\ PositionsOf("store_failed") # {}
  /\ PositionsOf("emergency_alert") # {}
  /\ LastResponse \in EmergencyHandlerPayloads

\* the log entries written during the turn that has the fields of an audit
\* entry: a time, a level and the one-way hash of the message
AuditEntries ==
  {i \in 1..Len(log) :
     /\ {"at", "crisis_level", "message_hash"} \subseteq DOMAIN log[i]
     /\ log[i].at = user_turns}

\* C24: every turn classified 'high' or 'emergency' has, when it ends, an audit
\* log entry with the time, the level and a one-way hash of the message, and no
\* log entry has the message text.
C24_UrgentTurnAudited ==
  /\ (pc = "idle" /\ UrgentTurn) => AuditEntries # {}
  /\ \A i \in 1..Len(log) : DOMAIN log[i] \cap {"message", "content"} = {}

------------------------------------------------------------------------------
(* Claims about the sweep running while a record is stored                  *)

Timestamps(rows) == {rows[i].timestamp : i \in 1..Len(rows)}

\* the sweep's own view of the table has only rows whose store has committed,
\* and never the row of a store still in its transaction
SweepSeesCommittedRowsOnly ==
  sweep_conn.pc \in {"update", "commit"} =>
    /\ Timestamps(sweep_conn.work) \subseteq {r.timestamp : r \in acknowledged}
    /\ store_conn.pc \in {"insert", "commit"} =>
         store_conn.row.timestamp \notin Timestamps(sweep_conn.work)

\* a store that returned True put its row into the table, and a row of the
\* table leaves it only by a sweep whose retention cutoff is later than the
\* row's timestamp
NoCommittedStoreLost ==
  /\ \A r \in acknowledged' \ acknowledged :
       r.timestamp \in Timestamps(conversations')
  /\ \A t \in Timestamps(conversations) \ Timestamps(conversations') :
       sweep_conn.pc = "commit" /\ sweep_conn'.pc = "idle" /\ t < sweep_conn.cutoff_date

\* the table changes under the sweep only by its DELETE and its UPDATE together
SweepTakesEffectWhole ==
  (sweep_conn' # sweep_conn /\ conversations' # conversations) =>
    conversations' =
      cleanup_old_data(conversations, sweep_conn.now, data_retention_days,
                       anonymize_after_days, "none").conversations

\* C25: in every interleaving of cleanup_old_data with store_conversation_data
\* no committed store is lost, the sweep never works on a row whose store has
\* not committed, and the sweep's delete and anonymize take effect together or
\* not at all.
C25_SweepAndStoreInterleaveSafely ==
  /\ []SweepSeesCommittedRowsOnly
  /\ [][NoCommittedStoreLost /\ SweepTakesEffectWhole]_vars

\* a store that began before the sweep began waited for the sweep's
\* transaction and committed after it; the sweep deleted one row
C25_Witness ==
  /\ store_conn.pc = "idle" /\ sweep_conn.pc = "idle"
  /\ "returned" \in DOMAIN store_conn /\ store_conn.returned
  /\ "returned" \in DOMAIN sweep_conn /\ "status" \in DOMAIN sweep_conn.returned
  /\ sweep_conn.returned.deleted_conversations = 1
  /\ store_conn.row.timestamp < sweep_conn.now
  /\ Len(log) >= 2
  /\ log[Len(log)].event = "Conversation data stored"
  /\ log[Len(log) - 1].event = "Cleanup completed"
  /\ store_conn.row.timestamp \in Timestamps(conversations)

------------------------------------------------------------------------------
(* Claims about the encryption key                                          *)

Constructed == {h \in Handlers : handlers[h].pc = "done"}

\* C26: across every interleaving of DataHandler initialisations on one key
\* file the key is generated once, no initialisation fails, and every handler
\* holds the key that the file holds once no handler is writing it.
C26_OneKeyForEveryHandler ==
  /\ keys_generated <= 1
  /\ \A h \in Handlers : handlers[h].pc # "failed"
  /\ \A h, g \in Constructed : handlers[h].key = handlers[g].key
  /\ (\A h \in Handlers : handlers[h].pc \notin {"open", "write"}) =>
       \A h \in Constructed : handlers[h].key = key_file.content

\* the submitted message contains a phrase of the emergency handler's
\* immediate_danger list
NamesImmediateDanger == any_in(eh_immediate_danger, lower(user_input))

\* C28: a message that contains a phrase of EmergencyHandler's
\* immediate_danger list, analysed without a fault, is classified 'emergency'
\* and answered by handle_crisis, not by the companion.
C28_ImmediateDangerIsEmergency ==
  (Answered /\ NamesImmediateDanger /\ PositionsOf("analysed") # {}) =>
    /\ ClassifiedEmergency
    /\ ~reply.gpt_invoked
    /\ LastResponse \in EmergencyHandlerPayloads

------------------------------------------------------------------------------
(* Claims about risk detection                                              *)

Elements(list) == {list[i] : i \in 1..Len(list)}

\* the risk types of which the text, as it was typed, contains a phrase
RiskPhrasesTyped == Elements(matching_categories(risk_patterns, lower(sentiment_call.text)))

\* C29: for every text that contains a phrase of one of the risk patterns, the
\* risk_indicators that analyze returns contain that risk type, also when the
\* phrase starts with a negation word ('no hope', 'not eating').
C29_RiskPhrasesReported ==
  sentiment_call # NoCall =>
    RiskPhrasesTyped \subseteq
      Elements(get(sentiment_call.result, "risk_indicators", <<>>))

------------------------------------------------------------------------------
(* Claims about what the sweep leaves alone                                  *)

\* the step is a call of cleanup_old_data
SweepStep ==
  /\ store_calls' = store_calls + 1
  /\ "op" \in DOMAIN store_result'
  /\ store_result'.op = "cleanup_old_data"

\* the row as it is after the step, if the step kept it (a row is known by its
\* timestamp)
RowsAfter(r) ==
  {conversations'[i] : i \in {j \in 1..Len(conversations') :
                                conversations'[j].timestamp = r.timestamp}}

C30_SweepFrameStep ==
  /\ SweepStep =>
       /\ wellness_activities' = wellness_activities
       /\ \A r \in StoredRows : \A kept \in RowsAfter(r) :
            kept = [r EXCEPT !.encrypted_content = kept.encrypted_content]
       /\ \A i \in 1..Len(conversations') :
            \E r \in StoredRows : conversations'[i].timestamp = r.timestamp
  /\ \A r \in StoredRows :
       r.encrypted_content = <<>> =>
         \A kept \in RowsAfter(r) : kept.encrypted_content = <<>>

=============================================================================
